---- MODULE Spec2Model ----
(***************************************************************************)
(* A model of the AfDB document harvester (src/afdb_harvester.py).         *)
(*                                                                         *)
(* Text is modelled as a sequence of one-character strings so that         *)
(* str.strip() and str.lower() are computed, not assumed.  The target      *)
(* sector "Agriculture & Agro-industries" is abbreviated to "Ag".          *)
(***************************************************************************)
EXTENDS Integers, Sequences, FiniteSets, TLC

VARIABLES
    target_sector,          \* self.target_sector
    op,                     \* which entry point this behaviour exercises
    arg,                    \* the argument of a pure function under check
    ret,                    \* <<>> before the call, <<value>> after it
    pc,                     \* where harvest_all_seeds / harvest_seed stands
    seed_idx,               \* position of the for loop over self.seeds
    current_url,            \* harvest_seed: current_url
    page_count,             \* harvest_seed: page_count
    documents,              \* harvest_seed: the documents the for loop has yet to visit
    seed_results,           \* harvest_seed: seed_results
    all_results,            \* self.all_results
    processed_detail_urls,  \* self.processed_detail_urls
    manifest,               \* the manifest file: does it exist, its lines
    fresh,                  \* self.fresh
    requests,               \* history: the detail-page requests issued, {[url, kind]}
    how,                    \* history: how each processed detail URL was decided
    listing_fetches,        \* history: listing pages requested for the current seed
    paginator_calls,        \* history: paginator invocations for the current seed
    halted,                 \* history: the current seed met a page without records
    ended                   \* history: why the while loop of the current seed was left

fnvars == <<target_sector, op, arg, ret>>

hvars == <<pc, seed_idx, current_url, page_count, documents, seed_results,
           all_results, processed_detail_urls, manifest, fresh, requests, how,
           listing_fetches, paginator_calls, halted, ended>>

vars == <<fnvars, hvars>>

\* The harvester as constructed and not started: what a behaviour that
\* exercises one function alone leaves untouched.
Constructed ==
    /\ pc = "seeds"
    /\ seed_idx = 1
    /\ current_url = <<>>
    /\ page_count = 0
    /\ documents = <<>>
    /\ seed_results = <<>>
    /\ all_results = <<>>
    /\ processed_detail_urls = {}
    /\ requests = {}
    /\ how = {}
    /\ listing_fetches = 0
    /\ paginator_calls = 0
    /\ halted = FALSE
    /\ ended = ""

----------------------------------------------------------------------------
(* Text *)

MaxStrLen == 3

Chars == {" ", "a", "A", "g"}

RECURSIVE SeqsUpTo(_, _)
SeqsUpTo(S, n) ==
    IF n = 0 THEN {<<>>}
    ELSE LET shorter == SeqsUpTo(S, n - 1)
         IN  shorter \cup {Append(s, x) : s \in {t \in shorter : Len(t) = n - 1}, x \in S}

Strings == SeqsUpTo(Chars, MaxStrLen)

IsSpace(c) == c = " "

LowerChar(c) == IF c = "A" THEN "a" ELSE c

Lower(s) == [i \in DOMAIN s |-> LowerChar(s[i])]

RECURSIVE LStrip(_)
LStrip(s) == IF s # <<>> /\ IsSpace(Head(s)) THEN LStrip(Tail(s)) ELSE s

RECURSIVE RStrip(_)
RStrip(s) ==
    IF s # <<>> /\ IsSpace(s[Len(s)]) THEN RStrip(SubSeq(s, 1, Len(s) - 1)) ELSE s

Strip(s) == RStrip(LStrip(s))

\* Python truthiness of a str: the empty string is falsy.
Truthy(s) == s # <<>>

----------------------------------------------------------------------------
(* Category Resolver: _matches_target_sector *)

\* a occurs in b as a contiguous run
Contains(b, a) == \E i \in 0..(Len(b) - Len(a)) : SubSeq(b, i + 1, i + Len(a)) = a

\* The comparison written with `in` instead of `==`.
matches_by_substring(sector) ==
    IF ~Truthy(sector) THEN FALSE
    ELSE Contains(Lower(Strip(sector)), Lower(Strip(target_sector)))

_matches_target_sector(sector) ==
    IF ~Truthy(sector) THEN FALSE
    ELSE Lower(Strip(sector)) = Lower(Strip(target_sector))

InitSector ==
    /\ target_sector \in Strings
    /\ op = "matches_target_sector"
    /\ arg \in Strings
    /\ ret = <<>>
    /\ Constructed
    /\ fresh = FALSE
    /\ manifest = [exists |-> FALSE, lines |-> <<>>]

CallMatchesTargetSector ==
    /\ op = "matches_target_sector"
    /\ ret = <<>>
    /\ ret' = <<_matches_target_sector(arg)>>
    /\ UNCHANGED <<target_sector, op, arg, hvars>>

NextSector == CallMatchesTargetSector

SpecSector == InitSector /\ [][NextSector]_vars

\* What "whitespace removed and case folded" means, stated without the
\* string operations above: t is s without its leading and trailing blanks,
\* and two texts agree up to the case of their letters.
IsTrimOf(t, s) ==
    \E i \in 1..(Len(s) + 1), j \in 0..Len(s) :
        /\ t = SubSeq(s, i, j)
        /\ \A n \in 1..Len(s) : (n < i \/ n > j) => s[n] = " "
        /\ t # <<>> => (t[1] # " " /\ t[Len(t)] # " ")

SameLetters(a, b) ==
    /\ Len(a) = Len(b)
    /\ \A i \in 1..Len(a) : a[i] = b[i] \/ {a[i], b[i]} = {"a", "A"}

EqualTrimmedFolded(s, t) ==
    \E i1 \in 1..(Len(s) + 1), j1 \in 0..Len(s) :
        /\ IsTrimOf(SubSeq(s, i1, j1), s)
        /\ \E i2 \in 1..(Len(t) + 1), j2 \in 0..Len(t) :
              /\ IsTrimOf(SubSeq(t, i2, j2), t)
              /\ SameLetters(SubSeq(s, i1, j1), SubSeq(t, i2, j2))

\* C2: _matches_target_sector(s) is true exactly when s, trimmed and folded,
\* equals the target trimmed and folded; it is false for the empty string
\* (the clause that decides the empty string) and for every text that only
\* contains, or is only contained in, the target.
C2_MatchesExactly ==
    (op = "matches_target_sector" /\ ret # <<>>) =>
        /\ arg = <<>> => ret[1] = FALSE
        /\ arg # <<>> => (ret[1] <=> EqualTrimmedFolded(arg, target_sector))
        /\ ( /\ Contains(arg, target_sector) \/ Contains(target_sector, arg)
             /\ ~EqualTrimmedFolded(arg, target_sector) ) => ret[1] = FALSE

\* a text that matches without being the target itself
C2_Witness ==
    /\ op = "matches_target_sector"
    /\ ret = <<TRUE>>
    /\ arg # target_sector
    /\ Len(arg) > Len(Strip(target_sector))

----------------------------------------------------------------------------
(* URLs and query strings *)

\* A URL (or an href) is what urlparse makes of it: `valid` is FALSE when the
\* network location has an unmatched square bracket, for which urlparse
\* raises ValueError; `scheme`, `netloc` and `path` are urlparse's, and
\* `query` is the name=value pairs of the query string in the order written.
\* A pair written without a value has v = "".
MaxQueryLen == 2

Keys == {"page", "foo"}

Vals == {"", "1", "x", "b%26c"}

Pairs == [k : Keys, v : Vals]

Queries == SeqsUpTo(Pairs, MaxQueryLen)

\* 'https://www.afdb.org', the base of every urljoin
OriginScheme == "https"

OriginNetloc == "www.afdb.org"

Digit == <<"0", "1", "2", "3", "4", "5", "6", "7", "8", "9">>

\* Python str(n) for n >= 0.
RECURSIVE Str(_)
Str(n) == IF n < 10 THEN Digit[n + 1] ELSE Str(n \div 10) \o Digit[(n % 10) + 1]

\* Python int(text) on the texts of this model: the decimal numerals parse,
\* every other text raises ValueError.
IntTexts == [n \in 0..99 |-> Str(n)]

IsIntText(v) == \E n \in DOMAIN IntTexts : IntTexts[n] = v

ToInt(v) == CHOOSE n \in DOMAIN IntTexts : IntTexts[n] = v

\* urllib.parse.unquote on the values of this model.
Unquote(v) == IF v = "b%26c" THEN "b&c" ELSE v

Ok(v) == [exc |-> "", val |-> v]

Raise(e) == [exc |-> e, val |-> 0]

\* urllib.parse.parse_qs with its defaults (keep_blank_values=False): an
\* insertion-ordered dict, here a sequence of [k, vs], vs the values of k in
\* the order written; blank values are dropped and values are unquoted.
RECURSIVE parse_qs_into(_, _)
parse_qs_into(acc, q) ==
    IF q = <<>> THEN acc
    ELSE LET p == Head(q)
             v == Unquote(p.v)
             at == {i \in DOMAIN acc : acc[i].k = p.k}
         IN  IF p.v = "" THEN parse_qs_into(acc, Tail(q))
             ELSE IF at = {}
                  THEN parse_qs_into(Append(acc, [k |-> p.k, vs |-> <<v>>]), Tail(q))
                  ELSE parse_qs_into(
                           [i \in DOMAIN acc |->
                               IF i \in at THEN [acc[i] EXCEPT !.vs = Append(@, v)]
                               ELSE acc[i]],
                           Tail(q))

parse_qs(q) == parse_qs_into(<<>>, q)

HasKey(d, k) == \E i \in DOMAIN d : d[i].k = k

Get(d, k) == d[CHOOSE i \in DOMAIN d : d[i].k = k].vs

\* _extract_page_number: urlparse is outside the try block, int() inside it.
_extract_page_number(url) ==
    IF ~url.valid THEN Raise("ValueError")
    ELSE LET query_params == parse_qs(url.query)
         IN  IF HasKey(query_params, "page") /\ IsIntText(Get(query_params, "page")[1])
             THEN Ok(ToInt(Get(query_params, "page")[1]))
             ELSE Ok(0)

Urls == [valid : BOOLEAN, scheme : {"https"}, netloc : {"x"}, path : {"/y"}, query : Queries]

InitPageNumber ==
    /\ target_sector = <<"A", "g">>
    /\ op = "extract_page_number"
    /\ arg \in Urls
    /\ ret = <<>>
    /\ Constructed
    /\ fresh = FALSE
    /\ manifest = [exists |-> FALSE, lines |-> <<>>]

CallExtractPageNumber ==
    /\ op = "extract_page_number"
    /\ ret = <<>>
    /\ ret' = <<_extract_page_number(arg)>>
    /\ UNCHANGED <<target_sector, op, arg, hvars>>

NextPageNumber == CallExtractPageNumber

SpecPageNumber == InitPageNumber /\ [][NextPageNumber]_vars

\* The `page` pairs of a query, in the order written.
PagePairs(query) == SelectSeq(query, LAMBDA p : p.k = "page")

\* C7: _extract_page_number returns the integer value of the first `page`
\* parameter when it parses as an integer, 0 when there is no `page`
\* parameter or its value is no integer, and never raises.
C7_ExtractPageNumber ==
    (op = "extract_page_number" /\ ret # <<>>) =>
        /\ ret[1].exc = ""
        /\ ret[1].val =
              IF PagePairs(arg.query) # <<>> /\ IsIntText(PagePairs(arg.query)[1].v)
              THEN ToInt(PagePairs(arg.query)[1].v)
              ELSE 0

----------------------------------------------------------------------------
(* Paginator: _get_next_page_url *)

MaxLinks == 1

\* An href as written in the page: form "none" is an anchor without href (or
\* with an empty one), "/" an href starting with a slash, "http" one starting
\* with http, "rel" any other.  An unmatched bracket can only sit in a
\* network location, so a "rel" href is always parseable.
Href(form, valid, scheme, netloc, path, query) ==
    [form |-> form, valid |-> valid, scheme |-> scheme, netloc |-> netloc,
     path |-> path, query |-> query]

NoHref == Href("none", TRUE, "", "", "", <<>>)

HrefPool ==
    { NoHref,
      Href("/", TRUE, "", "", "/list", <<[k |-> "page", v |-> "2"]>>),
      Href("rel", TRUE, "", "", "list", <<[k |-> "page", v |-> "1"]>>),
      Href("http", FALSE, "http", "[", "", <<[k |-> "page", v |-> "2"]>>) }

\* The page as the paginator queries it: the anchors matched by the "next"
\* selectors (selector order, then document order) and the anchors of the
\* pagination areas.
Soups == [next_links : SeqsUpTo(HrefPool, MaxLinks), page_links : SeqsUpTo(HrefPool, MaxLinks)]

\* The three-way normalisation of an href against the site origin; urljoin
\* parses its argument and raises on an unmatched bracket.
Url(valid, scheme, netloc, path, query) ==
    [valid |-> valid, scheme |-> scheme, netloc |-> netloc, path |-> path, query |-> query]

NormalizeHref(href) ==
    IF href.form = "/"
    THEN IF href.valid
         THEN Ok(<<Url(TRUE, OriginScheme, OriginNetloc, href.path, href.query)>>)
         ELSE Raise("ValueError")
    ELSE IF href.form = "http"
    THEN Ok(<<Url(href.valid, href.scheme, href.netloc, href.path, href.query)>>)
    ELSE Ok(<<Url(TRUE, OriginScheme, OriginNetloc, "/" \o href.path, href.query)>>)

\* Strategy 1: the query, rebuilt from the parsed dict with the first value
\* of each key, page replaced by its successor.
IncrementedQuery(query_params) ==
    [i \in DOMAIN query_params |->
        [k |-> query_params[i].k,
         v |-> IF query_params[i].k = "page"
               THEN Str(ToInt(query_params[i].vs[1]) + 1)
               ELSE query_params[i].vs[1]]]

\* Strategy 2: the first anchor with an href among the "next" matches.
RECURSIVE NextAnchor(_)
NextAnchor(links) ==
    IF links = <<>> THEN Ok(<<>>)
    ELSE IF Head(links).form # "none" THEN NormalizeHref(Head(links))
    ELSE NextAnchor(Tail(links))

\* Strategy 3: the first pagination anchor whose page number is current + 1.
RECURSIVE SequentialAnchor(_, _)
SequentialAnchor(links, current_page_num) ==
    IF links = <<>> THEN Ok(<<>>)
    ELSE IF Head(links).form = "none" THEN SequentialAnchor(Tail(links), current_page_num)
    ELSE LET link_page_num == _extract_page_number(Head(links))
         IN  IF link_page_num.exc # "" THEN link_page_num
             ELSE IF link_page_num.val = current_page_num + 1 THEN NormalizeHref(Head(links))
             ELSE SequentialAnchor(Tail(links), current_page_num)

_get_next_page_url(soup, cur_url) ==
    IF ~cur_url.valid THEN Raise("ValueError")
    ELSE LET query_params == parse_qs(cur_url.query)
             by_next == NextAnchor(soup.next_links)
         IN  IF HasKey(query_params, "page") /\ IsIntText(Get(query_params, "page")[1])
             THEN Ok(<<Url(TRUE, cur_url.scheme, cur_url.netloc, cur_url.path,
                           IncrementedQuery(query_params))>>)
             ELSE IF by_next.exc # "" \/ by_next.val # <<>> THEN by_next
             ELSE SequentialAnchor(soup.page_links, _extract_page_number(cur_url).val)

InitNextPage ==
    /\ target_sector = <<"A", "g">>
    /\ op = "get_next_page_url"
    /\ arg \in [soup : Soups, current_url : {u \in Urls : u.valid}]
    /\ ret = <<>>
    /\ Constructed
    /\ fresh = FALSE
    /\ manifest = [exists |-> FALSE, lines |-> <<>>]

CallGetNextPageUrl ==
    /\ op = "get_next_page_url"
    /\ ret = <<>>
    /\ ret' = <<_get_next_page_url(arg.soup, arg.current_url)>>
    /\ UNCHANGED <<target_sector, op, arg, hvars>>

NextNextPage == CallGetNextPageUrl

SpecNextPage == InitNextPage /\ [][NextNextPage]_vars

\* The query with its first `page` pair set to n and every other pair as
\* written.
RECURSIVE WithFirstPage(_, _)
WithFirstPage(query, n) ==
    IF query = <<>> THEN <<>>
    ELSE IF Head(query).k = "page" THEN <<[k |-> "page", v |-> Str(n)]>> \o Tail(query)
    ELSE <<Head(query)>> \o WithFirstPage(Tail(query), n)

\* C6: when the current URL has a `page` parameter that parses as an
\* integer N, the next URL is the same URL with page=N+1 and every other
\* parameter preserved (blank-valued and repeated ones included) in the
\* order written.  Stated for the URLs that carry `page` once, where "every
\* other parameter" is not in question.
C6_QueryIncrementPreserves ==
    ( /\ op = "get_next_page_url"
      /\ ret # <<>>
      /\ Len(PagePairs(arg.current_url.query)) = 1
      /\ IsIntText(PagePairs(arg.current_url.query)[1].v) ) =>
        /\ ret[1].exc = ""
        /\ ret[1].val =
              <<[arg.current_url EXCEPT
                   !.query = WithFirstPage(@, ToInt(PagePairs(@)[1].v) + 1)]>>

----------------------------------------------------------------------------
(* Record Extractor: _extract_card_info, _extract_document_cards *)

MaxCards == 2

\* A card as the extractor queries it.  Each field lists what select_one
\* returned for the selectors of that field that matched, in selector order:
\* titles, dates and countries as stripped texts, sectors as stripped
\* character sequences, links as hrefs.
Card(titles, links, dates, countries, sectors) ==
    [titles |-> titles, links |-> links, dates |-> dates, countries |-> countries,
     sectors |-> sectors]

\* re.search(r'\d{4}|\d{1,2}/\d{1,2}/\d{4}|\d{1,2}-\d{1,2}-\d{4}', t)
HasDateToken(t) == t \in {"2023-01-01", "Report 2023"}

\* re.search(r'\d{4}', t)
HasYear(t) == t \in {"2023-01-01", "Report 2023"}

\* 'agriculture' in t.lower() or 'agro' in t.lower(), "ag" standing for both
HasSectorKeyword(t) == Contains(Lower(t), <<"a", "g">>)

\* title: the first non-empty text; every text tried is assigned.
RECURSIVE ExtractTitle(_, _)
ExtractTitle(title, elems) ==
    IF elems = <<>> THEN title
    ELSE IF Head(elems) # "" THEN Head(elems)
    ELSE ExtractTitle(Head(elems), Tail(elems))

\* detail URL: the first matched element that carries an href, normalised.
RECURSIVE ExtractDetailUrl(_)
ExtractDetailUrl(elems) ==
    IF elems = <<>> THEN Ok(<<>>)
    ELSE IF Head(elems).form # "none" THEN NormalizeHref(Head(elems))
    ELSE ExtractDetailUrl(Tail(elems))

\* date: the first text with a date token, else empty.
RECURSIVE ExtractDate(_)
ExtractDate(elems) ==
    IF elems = <<>> THEN ""
    ELSE IF HasDateToken(Head(elems)) THEN Head(elems)
    ELSE ExtractDate(Tail(elems))

\* country: every text tried is assigned; the loop stops at the first
\* non-empty text without a year.
RECURSIVE ExtractCountry(_, _)
ExtractCountry(country, elems) ==
    IF elems = <<>> THEN country
    ELSE IF Head(elems) # "" /\ ~HasYear(Head(elems)) THEN Head(elems)
    ELSE ExtractCountry(Head(elems), Tail(elems))

\* sector: the first text with a target keyword, else empty.
RECURSIVE ExtractSector(_)
ExtractSector(elems) ==
    IF elems = <<>> THEN <<>>
    ELSE IF HasSectorKeyword(Head(elems)) THEN Head(elems)
    ELSE ExtractSector(Tail(elems))

\* None is <<>>, a dict is <<doc>>.  An exception inside is caught and
\* gives None.
_extract_card_info(card, source_seed, page_num) ==
    LET title == ExtractTitle("", card.titles)
        detail_url == ExtractDetailUrl(card.links)
        sector == ExtractSector(card.sectors)
    IN  IF detail_url.exc # "" THEN <<>>
        ELSE IF title # "" /\ detail_url.val # <<>>
        THEN << [source_seed |-> source_seed,
                 page_num |-> page_num,
                 title |-> title,
                 date |-> ExtractDate(card.dates),
                 country |-> ExtractCountry("", card.countries),
                 sector |-> sector,
                 detail_url |-> detail_url.val[1],
                 sector_source |-> IF Truthy(sector) THEN "card" ELSE "unknown"] >>
        ELSE <<>>

RECURSIVE ExtractEach(_, _, _)
ExtractEach(cards, source_seed, page_num) ==
    IF cards = <<>> THEN <<>>
    ELSE _extract_card_info(Head(cards), source_seed, page_num)
             \o ExtractEach(Tail(cards), source_seed, page_num)

\* A listing page as the extractor queries it: `selected` is what the first
\* card selector with any match returned (<<>> when none matched), and
\* `fallback` what the class-name pattern finds, consulted only then.
_extract_document_cards(soup, source_seed, page_num) ==
    LET cards == IF soup.selected # <<>> THEN soup.selected ELSE soup.fallback
    IN  ExtractEach(cards, source_seed, page_num)

DetailHrefs ==
    { NoHref,
      Href("/", TRUE, "", "", "/d1", <<>>),
      Href("http", TRUE, "https", "h", "/d2", <<>>),
      Href("rel", TRUE, "", "", "d3", <<>>),
      Href("http", TRUE, "", "", "httpdocs/d4", <<>>),
      Href("/", FALSE, "", "[", "/d5", <<>>) }

CardPool ==
    { Card(ts, ls, <<"2023-01-01">>, <<"2023-01-01", "Kenya">>, <<<<"A", "g">>>>) :
        ts \in {<<>>, <<"">>, <<"T">>, <<"", "U">>},
        ls \in {<<>>, <<NoHref>>, <<NoHref, Href("rel", TRUE, "", "", "d3", <<>>)>>} }
    \cup
    { Card(<<"T">>, <<h>>, <<>>, <<"Report 2023">>, <<>>) : h \in DetailHrefs }

ListingSoups ==
    {[selected |-> c, fallback |-> <<>>] : c \in SeqsUpTo(CardPool, MaxCards) \ {<<>>}}
    \cup {[selected |-> <<>>, fallback |-> c] : c \in SeqsUpTo(CardPool, MaxCards)}

InitCards ==
    /\ target_sector = <<"A", "g">>
    /\ op = "extract_document_cards"
    /\ arg \in [soup : ListingSoups, source_seed : {"https://seed"}, page_num : {1}]
    /\ ret = <<>>
    /\ Constructed
    /\ fresh = FALSE
    /\ manifest = [exists |-> FALSE, lines |-> <<>>]

CallExtractDocumentCards ==
    /\ op = "extract_document_cards"
    /\ ret = <<>>
    /\ ret' = <<_extract_document_cards(arg.soup, arg.source_seed, arg.page_num)>>
    /\ UNCHANGED <<target_sector, op, arg, hvars>>

NextCards == CallExtractDocumentCards

SpecCards == InitCards /\ [][NextCards]_vars

IsAbsolute(url) == url.scheme # "" /\ url.netloc # ""

CardsOf(soup) == IF soup.selected # <<>> THEN soup.selected ELSE soup.fallback

\* doc can have come from card: its title is a non-empty title text of the
\* card and the card has an anchor with an href
ComesFrom(doc, card) ==
    /\ \E i \in DOMAIN card.titles : card.titles[i] = doc.title /\ doc.title # ""
    /\ \E i \in DOMAIN card.links : card.links[i].form # "none"

\* C8: every record the extractor returns has a non-empty title and a
\* non-empty absolute detail URL; a card without a title or without a detail
\* URL yields no record; the records appear in page order.
C8_KeptRecords ==
    (op = "extract_document_cards" /\ ret # <<>>) =>
        LET docs == ret[1]
            cards == CardsOf(arg.soup)
        IN  /\ \A i \in DOMAIN docs : docs[i].title # "" /\ IsAbsolute(docs[i].detail_url)
            /\ \E f \in [DOMAIN docs -> DOMAIN cards] :
                  /\ \A i, j \in DOMAIN docs : i < j => f[i] < f[j]
                  /\ \A i \in DOMAIN docs : ComesFrom(docs[i], cards[f[i]])

----------------------------------------------------------------------------
(* Category Resolver and Link Resolver on a detail page *)

\* requests cannot fetch a URL without scheme and host, nor one urlparse
\* rejects: it raises a RequestException, which _make_request turns into None.
Fetchable(url) == url.valid /\ url.scheme # "" /\ url.netloc # ""

\* What a GET of a detail page gives.  kind "raise": an exception that is no
\* RequestException and so escapes _make_request; "fail": a transport
\* failure, _get_soup returns None; "page": a parsed page, with `sectors` the
\* stripped texts of the elements the sector selectors match (selector
\* order), `pdf_links` the hrefs of the anchors a[href$=".pdf"] and
\* `other_links` the anchors of the broader selectors, each with its href and
\* whether that href contains ".pdf".
DetailPage(kind, sectors, pdf_links, other_links) ==
    [kind |-> kind, sectors |-> sectors, pdf_links |-> pdf_links, other_links |-> other_links]

\* The last non-empty text is taken instead of the first.
check_last_sector_on_detail_page(page) ==
    IF page.kind = "raise"
    THEN [exc |-> "Exception", sector |-> <<>>, notes |-> ""]
    ELSE IF page.kind = "fail"
    THEN [exc |-> "", sector |-> <<>>, notes |-> "failed to fetch detail page"]
    ELSE LET found == SelectSeq(page.sectors, Truthy)
         IN  IF found # <<>>
             THEN [exc |-> "", sector |-> found[Len(found)], notes |-> "sector from detail page"]
             ELSE [exc |-> "", sector |-> <<>>, notes |-> "no sector found on detail page"]

_check_sector_on_detail_page(page) ==
    IF page.kind = "raise"
    THEN [exc |-> "Exception", sector |-> <<>>, notes |-> ""]
    ELSE IF page.kind = "fail"
    THEN [exc |-> "", sector |-> <<>>, notes |-> "failed to fetch detail page"]
    ELSE LET found == SelectSeq(page.sectors, Truthy)
         IN  IF found # <<>>
             THEN [exc |-> "", sector |-> found[1], notes |-> "sector from detail page"]
             ELSE [exc |-> "", sector |-> <<>>, notes |-> "no sector found on detail page"]

\* The candidate is kept and the hops are counted from one.
follow_redirects_keeping_candidate(url, head) ==
    IF head.ok THEN [url |-> url, count |-> head.hops + 1]
    ELSE [url |-> url, count |-> 0]

\* The failed request is reported as a hop.
follow_redirects_counting_failure(url, head) ==
    IF head.ok THEN [url |-> head.final, count |-> head.hops]
    ELSE [url |-> url, count |-> 1]

\* head: what the HEAD request gives, [ok, final, hops]; a failed request and
\* an exception both leave the candidate as it is, with zero hops.
_follow_redirects(url, head) ==
    IF head.ok THEN [url |-> head.final, count |-> head.hops]
    ELSE [url |-> url, count |-> 0]

\* The second pass: the first anchor with an href that contains ".pdf".
RECURSIVE OtherCandidate(_)
OtherCandidate(links) ==
    IF links = <<>> THEN Ok(<<>>)
    ELSE IF Head(links).href.form # "none" /\ Head(links).pdf THEN NormalizeHref(Head(links).href)
    ELSE OtherCandidate(Tail(links))

\* The first pass takes the first a[href$=".pdf"] anchor: its href is not
\* empty, and the path test always passes, since every normalised href starts
\* with "http" and contains ".pdf".
_resolve_pdf_url(page, head) ==
    IF page.kind = "raise" THEN [exc |-> "Exception", pdf_url |-> <<>>, notes |-> ""]
    ELSE IF page.kind = "fail"
    THEN [exc |-> "", pdf_url |-> <<>>, notes |-> "failed to fetch detail page"]
    ELSE LET candidate == IF page.pdf_links # <<>> THEN NormalizeHref(page.pdf_links[1])
                          ELSE OtherCandidate(page.other_links)
         IN  IF candidate.exc # "" THEN [exc |-> candidate.exc, pdf_url |-> <<>>, notes |-> ""]
             ELSE IF candidate.val = <<>>
             THEN [exc |-> "", pdf_url |-> <<>>, notes |-> "no pdf found"]
             ELSE LET followed == _follow_redirects(candidate.val[1], head)
                  IN  [exc |-> "", pdf_url |-> <<followed.url>>,
                       notes |-> IF followed.count > 0
                                 THEN "redirects=" \o Str(followed.count) ELSE ""]

never_duplicate(detail_url) == FALSE

\* if detail_url in self.processed_detail_urls
IsDuplicate(detail_url) == detail_url \in processed_detail_urls

Effects(exc, result, added, reqs, decision) ==
    [exc |-> exc, result |-> result, added |-> added, reqs |-> reqs, decision |-> decision]

\* Every accepted record is reported as linked.
resolve_and_build_always_linked(doc, final_sector, notes, decision, reqs, pdf_page, head) ==
    LET pdf == _resolve_pdf_url(pdf_page, head)
    IN  IF pdf.exc # "" THEN Effects(pdf.exc, <<>>, TRUE, reqs \cup {"pdf"}, decision)
        ELSE Effects("",
                     << [source_seed |-> doc.source_seed,
                         page_num |-> doc.page_num,
                         title |-> doc.title,
                         date |-> doc.date,
                         country |-> doc.country,
                         sector |-> final_sector,
                         detail_url |-> doc.detail_url,
                         pdf_url |-> pdf.pdf_url,
                         status |-> "linked",
                         notes |-> IF pdf.notes # "" THEN Append(notes, pdf.notes)
                                   ELSE notes] >>,
                     TRUE, reqs \cup {"pdf"}, decision)

\* The row of an accepted record, or the exception of the link resolver.
\* notes is the list that '; '.join makes one text of.
ResolveAndBuild(doc, final_sector, notes, decision, reqs, pdf_page, head) ==
    LET pdf == _resolve_pdf_url(pdf_page, head)
    IN  IF pdf.exc # "" THEN Effects(pdf.exc, <<>>, TRUE, reqs \cup {"pdf"}, decision)
        ELSE Effects("",
                     << [source_seed |-> doc.source_seed,
                         page_num |-> doc.page_num,
                         title |-> doc.title,
                         date |-> doc.date,
                         country |-> doc.country,
                         sector |-> final_sector,
                         detail_url |-> doc.detail_url,
                         pdf_url |-> pdf.pdf_url,
                         status |-> IF pdf.pdf_url # <<>> THEN "linked" ELSE "no_pdf",
                         notes |-> IF pdf.notes # "" THEN Append(notes, pdf.notes)
                                   ELSE notes] >>,
                     TRUE, reqs \cup {"pdf"}, decision)

\* The non-matching listing text falls through to the detail page check.
process_document_checking_detail(doc, sector_page, pdf_page, head) ==
    IF IsDuplicate(doc.detail_url) THEN Effects("", <<>>, FALSE, {}, "duplicate")
    ELSE IF Truthy(doc.sector) /\ _matches_target_sector(doc.sector)
    THEN ResolveAndBuild(doc, doc.sector, <<"sector from card">>, "card", {}, pdf_page, head)
    ELSE LET checked == _check_sector_on_detail_page(sector_page)
         IN  IF checked.exc # ""
             THEN Effects(checked.exc, <<>>, TRUE, {"sector"}, "detail_raised")
             ELSE IF ~_matches_target_sector(checked.sector)
             THEN Effects("", <<>>, TRUE, {"sector"}, "reject_detail")
             ELSE ResolveAndBuild(doc, checked.sector, <<checked.notes>>, "detail",
                                  {"sector"}, pdf_page, head)

\* The accepted listing text is replaced by the configured target.
process_document_keeping_target(doc, sector_page, pdf_page, head) ==
    IF IsDuplicate(doc.detail_url) THEN Effects("", <<>>, FALSE, {}, "duplicate")
    ELSE IF Truthy(doc.sector) /\ _matches_target_sector(doc.sector)
    THEN ResolveAndBuild(doc, target_sector, <<"sector from card">>, "card", {}, pdf_page, head)
    ELSE IF ~Truthy(doc.sector)
    THEN LET checked == _check_sector_on_detail_page(sector_page)
         IN  IF checked.exc # ""
             THEN Effects(checked.exc, <<>>, TRUE, {"sector"}, "detail_raised")
             ELSE IF ~_matches_target_sector(checked.sector)
             THEN Effects("", <<>>, TRUE, {"sector"}, "reject_detail")
             ELSE ResolveAndBuild(doc, checked.sector, <<checked.notes>>, "detail",
                                  {"sector"}, pdf_page, head)
    ELSE Effects("", <<>>, TRUE, {}, "reject_card")

\* The URL enters the dedup set only when the record is accepted.
process_document_adding_when_accepted(doc, sector_page, pdf_page, head) ==
    IF IsDuplicate(doc.detail_url) THEN Effects("", <<>>, FALSE, {}, "duplicate")
    ELSE IF Truthy(doc.sector) /\ _matches_target_sector(doc.sector)
    THEN ResolveAndBuild(doc, doc.sector, <<"sector from card">>, "card", {}, pdf_page, head)
    ELSE IF ~Truthy(doc.sector)
    THEN LET checked == _check_sector_on_detail_page(sector_page)
         IN  IF checked.exc # ""
             THEN Effects(checked.exc, <<>>, FALSE, {"sector"}, "detail_raised")
             ELSE IF ~_matches_target_sector(checked.sector)
             THEN Effects("", <<>>, FALSE, {"sector"}, "reject_detail")
             ELSE ResolveAndBuild(doc, checked.sector, <<checked.notes>>, "detail",
                                  {"sector"}, pdf_page, head)
    ELSE Effects("", <<>>, FALSE, {}, "reject_card")

\* _process_document as its effects: the exception it lets out (if any), the
\* row it returns (<<>> for None), whether it added the URL to the dedup
\* set, the requests it issued for the detail URL, and how it decided.
_process_document(doc, sector_page, pdf_page, head) ==
    IF IsDuplicate(doc.detail_url) THEN Effects("", <<>>, FALSE, {}, "duplicate")
    ELSE IF Truthy(doc.sector) /\ _matches_target_sector(doc.sector)
    THEN ResolveAndBuild(doc, doc.sector, <<"sector from card">>, "card", {}, pdf_page, head)
    ELSE IF ~Truthy(doc.sector)
    THEN LET checked == _check_sector_on_detail_page(sector_page)
         IN  IF checked.exc # ""
             THEN Effects(checked.exc, <<>>, TRUE, {"sector"}, "detail_raised")
             ELSE IF ~_matches_target_sector(checked.sector)
             THEN Effects("", <<>>, TRUE, {"sector"}, "reject_detail")
             ELSE ResolveAndBuild(doc, checked.sector, <<checked.notes>>, "detail",
                                  {"sector"}, pdf_page, head)
    ELSE Effects("", <<>>, TRUE, {}, "reject_card")

----------------------------------------------------------------------------
(* Crawl Orchestrator: harvest_all_seeds, harvest_seed, _write_manifest *)

max_pages == 2

MaxDocs == 2

Seed1 == Url(TRUE, "https", "www.afdb.org", "/en/documents", <<>>)

Seed2 == Url(TRUE, "https", "www.afdb.org", "/en/documents", <<[k |-> "page", v |-> "1"]>>)

seeds == <<Seed1, Seed2>>

\* The listings show two documents: /d1 with the target sector on its card
\* or with none, /d2 with the target sector or with another one that has the
\* keyword; and a card without a link.
HarvestCard(path, sectors) ==
    Card(<<"T">>, <<Href("/", TRUE, "", "", path, <<>>)>>, <<>>, <<>>, sectors)

HarvestCards ==
    { HarvestCard("/d1", <<>>), HarvestCard("/d1", <<<<"a", "g">>>>),
      HarvestCard("/d2", <<<<"a", "g", "g">>>>), HarvestCard("/d2", <<<<"a", "g">>>>),
      Card(<<"T">>, <<>>, <<>>, <<>>, <<>>) }

HarvestSoups == {[selected |-> c, fallback |-> <<>>] : c \in SeqsUpTo(HarvestCards, MaxDocs)}

SectorPages ==
    { DetailPage("raise", <<>>, <<>>, <<>>), DetailPage("fail", <<>>, <<>>, <<>>) }
    \cup { DetailPage("page", secs, <<>>, <<>>) :
             secs \in { <<>>, << <<>> >>, << <<>>, <<"A", "g">> >>, << <<"g">>, <<"A", "g">> >> } }

PdfHref == Href("/", TRUE, "", "", "/sites/default/files/documents/a.pdf", <<>>)

PdfPages ==
    { DetailPage("raise", <<>>, <<>>, <<>>), DetailPage("fail", <<>>, <<>>, <<>>),
      DetailPage("page", <<>>, <<>>, <<>>),
      DetailPage("page", <<>>, <<PdfHref>>, <<>>),
      DetailPage("page", <<>>, <<>>, <<[href |-> PdfHref, pdf |-> FALSE],
                                        [href |-> PdfHref, pdf |-> TRUE]>>),
      DetailPage("page", <<>>, <<Href("/", FALSE, "", "[", "/a.pdf", <<>>)>>, <<>>) }

\* The crawl is explored with the link resolver's outcomes one of each kind.
HarvestPdfPages ==
    { DetailPage("fail", <<>>, <<>>, <<>>),
      DetailPage("page", <<>>, <<PdfHref>>, <<>>),
      DetailPage("page", <<>>, <<Href("/", FALSE, "", "[", "/a.pdf", <<>>)>>, <<>>) }

FinalPdf == Url(TRUE, "https", "cdn.afdb.org", "/a.pdf", <<>>)

\* What the HEAD request for a candidate gives: a failure, the URL
\* requested after no hop, another URL after one hop.
Heads(candidate) ==
    { [ok |-> FALSE, final |-> candidate, hops |-> 0],
      [ok |-> TRUE, final |-> candidate, hops |-> 0],
      [ok |-> TRUE, final |-> FinalPdf, hops |-> 1] }

Header == [kind |-> "header", row |-> <<>>]

RowLine(row) == [kind |-> "row", row |-> <<row>>]

OldLine == [kind |-> "old", row |-> <<>>]

Init ==
    /\ target_sector = <<"A", "g">>
    /\ op = "harvest_all_seeds"
    /\ arg = <<>>
    /\ ret = <<>>
    /\ Constructed
    /\ fresh = FALSE
    /\ manifest = [exists |-> TRUE, lines |-> <<Header, OldLine>>]

\* for seed_url in self.seeds: ... harvest_seed(seed_url), up to the while
BeginSeed ==
    /\ op = "harvest_all_seeds"
    /\ pc = "seeds"
    /\ seed_idx <= Len(seeds)
    /\ current_url' = <<seeds[seed_idx]>>
    /\ page_count' = 0
    /\ seed_results' = <<>>
    /\ documents' = <<>>
    /\ listing_fetches' = 0
    /\ paginator_calls' = 0
    /\ halted' = FALSE
    /\ ended' = ""
    /\ pc' = "while"
    /\ UNCHANGED <<fnvars, seed_idx, all_results, processed_detail_urls, manifest, fresh,
                   requests, how>>

while_through_ceiling == current_url # <<>> /\ page_count <= max_pages

\* The loop runs as long as there is a next URL.
while_without_ceiling == current_url # <<>>

\* while current_url and page_count < self.max_pages
WhileCondition == current_url # <<>> /\ page_count < max_pages

never_no_documents(docs) == FALSE

\* if not documents: break
NoDocuments(docs) == docs = <<>>

\* A failed fetch returns an empty list instead of leaving the loop.
fetch_page_failure_returns_nothing ==
    /\ pc = "while"
    /\ WhileCondition
    /\ page_count' = page_count + 1
    /\ listing_fetches' = listing_fetches + 1
    /\ \/ \* soup is None: break
          /\ pc' = "seed_end"
          /\ ended' = "fetch_failed"
          /\ seed_results' = <<>>
          /\ UNCHANGED <<seed_idx, documents, halted>>
       \/ \* an exception that is no RequestException leaves harvest_seed
          /\ pc' = "seeds"
          /\ seed_idx' = seed_idx + 1
          /\ ended' = "raised"
          /\ UNCHANGED <<documents, halted, seed_results>>
       \/ /\ Fetchable(current_url[1])
          /\ UNCHANGED <<seed_idx, seed_results>>
          /\ \E soup \in HarvestSoups :
               LET docs == _extract_document_cards(soup, seeds[seed_idx], page_count + 1)
               IN  /\ halted' = (halted \/ docs = <<>>)
                   /\ IF NoDocuments(docs)
                      THEN /\ pc' = "seed_end"
                           /\ ended' = "no_documents"
                           /\ UNCHANGED documents
                      ELSE /\ pc' = "docs"
                           /\ documents' = docs
                           /\ UNCHANGED ended
    /\ UNCHANGED <<fnvars, current_url, all_results,
                   processed_detail_urls, manifest, fresh, requests, how, paginator_calls>>

\* One turn of the while loop as far as the for loop: count the page, fetch
\* it, extract its cards.
FetchPage ==
    /\ pc = "while"
    /\ WhileCondition
    /\ page_count' = page_count + 1
    /\ listing_fetches' = listing_fetches + 1
    /\ \/ \* soup is None: break
          /\ pc' = "seed_end"
          /\ ended' = "fetch_failed"
          /\ UNCHANGED <<seed_idx, documents, halted>>
       \/ \* an exception that is no RequestException leaves harvest_seed
          /\ pc' = "seeds"
          /\ seed_idx' = seed_idx + 1
          /\ ended' = "raised"
          /\ UNCHANGED <<documents, halted>>
       \/ /\ Fetchable(current_url[1])
          /\ UNCHANGED seed_idx
          /\ \E soup \in HarvestSoups :
               LET docs == _extract_document_cards(soup, seeds[seed_idx], page_count + 1)
               IN  /\ halted' = (halted \/ docs = <<>>)
                   /\ IF NoDocuments(docs)
                      THEN /\ pc' = "seed_end"
                           /\ ended' = "no_documents"
                           /\ UNCHANGED documents
                      ELSE /\ pc' = "docs"
                           /\ documents' = docs
                           /\ UNCHANGED ended
    /\ UNCHANGED <<fnvars, current_url, seed_results, all_results,
                   processed_detail_urls, manifest, fresh, requests, how, paginator_calls>>

\* The while condition fails.
WhileExit ==
    /\ pc = "while"
    /\ ~WhileCondition
    /\ pc' = "seed_end"
    /\ ended' = "ceiling"
    /\ UNCHANGED <<fnvars, seed_idx, current_url, page_count, documents,
                   seed_results, all_results, processed_detail_urls, manifest, fresh,
                   requests, how, listing_fetches, paginator_calls, halted>>

\* The failure is not described and the row is reported as no_pdf.
error_row_as_no_pdf(doc, exc) ==
    [source_seed |-> seeds[seed_idx],
     page_num |-> page_count,
     title |-> doc.title,
     date |-> doc.date,
     country |-> doc.country,
     sector |-> <<>>,
     detail_url |-> doc.detail_url,
     pdf_url |-> <<>>,
     status |-> "no_pdf",
     notes |-> <<"processing error">>]

\* The error row keeps the sector of the card.
error_row_with_card_sector(doc, exc) ==
    [source_seed |-> seeds[seed_idx],
     page_num |-> page_count,
     title |-> doc.title,
     date |-> doc.date,
     country |-> doc.country,
     sector |-> doc.sector,
     detail_url |-> doc.detail_url,
     pdf_url |-> <<>>,
     status |-> "error",
     notes |-> <<"processing error: " \o exc>>]

\* error_result of the except branch
ErrorRow(doc, exc) ==
    [source_seed |-> seeds[seed_idx],
     page_num |-> page_count,
     title |-> doc.title,
     date |-> doc.date,
     country |-> doc.country,
     sector |-> <<>>,
     detail_url |-> doc.detail_url,
     pdf_url |-> <<>>,
     status |-> "error",
     notes |-> <<"processing error: " \o exc>>]

\* The pages the site can answer a request for the document's detail URL
\* with: a parsed page only if the URL can be fetched at all.
Served(pages, doc) == {p \in pages : p.kind = "page" => Fetchable(doc.detail_url)}

\* A page is drawn only when _process_document asks for it; what is not
\* requested is not served.
Unrequested == DetailPage("fail", <<>>, <<>>, <<>>)

NoHead == [ok |-> FALSE, final |-> FinalPdf, hops |-> 0]

SectorPagesFor(doc) ==
    IF "sector" \in _process_document(doc, Unrequested, Unrequested, NoHead).reqs
    THEN Served(SectorPages, doc) ELSE {Unrequested}

PdfPagesFor(pages, doc, sector_page) ==
    IF "pdf" \in _process_document(doc, sector_page, Unrequested, NoHead).reqs
    THEN Served(pages, doc) ELSE {Unrequested}

HeadsFor(pdf_page) ==
    LET found == _resolve_pdf_url(pdf_page, NoHead)
    IN  IF found.exc = "" /\ found.pdf_url # <<>> THEN Heads(found.pdf_url[1]) ELSE {NoHead}

\* One turn of the for loop, given what the site answers: the try block
\* around _process_document and its except branch.  rate_limit is a duration
\* (not negative), so time.sleep returns.
ProcessDocumentOn(sector_page, pdf_page, head) ==
    /\ pc = "docs"
    /\ documents # <<>>
    /\ LET doc == Head(documents)
           done == _process_document(doc, sector_page, pdf_page, head)
       IN  /\ processed_detail_urls' =
                  IF done.added THEN processed_detail_urls \cup {doc.detail_url}
                  ELSE processed_detail_urls
           /\ requests' = requests \cup {[url |-> doc.detail_url, kind |-> k] : k \in done.reqs}
           /\ how' = IF done.added
                     THEN how \cup {[url |-> doc.detail_url,
                                     card_sector |-> doc.sector,
                                     decision |-> done.decision]}
                     ELSE how
           /\ seed_results' =
                  IF done.exc # "" THEN Append(seed_results, ErrorRow(doc, done.exc))
                  ELSE seed_results \o done.result
    /\ documents' = Tail(documents)
    /\ UNCHANGED <<pc, seed_idx, current_url, page_count, all_results,
                   manifest, fresh, listing_fetches, paginator_calls, halted, ended>>

ProcessDocument ==
    /\ op = "harvest_all_seeds"
    /\ pc = "docs"
    /\ documents # <<>>
    /\ \E sector_page \in SectorPagesFor(Head(documents)) :
       \E pdf_page \in PdfPagesFor(HarvestPdfPages, Head(documents), sector_page) :
       \E head \in HeadsFor(pdf_page) :
          ProcessDocumentOn(sector_page, pdf_page, head)
    /\ UNCHANGED fnvars

\* harvest_all_seeds has no handler: the exception of a seed ends the run.
paginate_aborting_run ==
    /\ op = "harvest_all_seeds"
    /\ pc = "docs"
    /\ documents = <<>>
    /\ paginator_calls' = paginator_calls + 1
    /\ \E soup \in Soups :
         LET next_url == _get_next_page_url(soup, current_url[1])
         IN  IF next_url.exc # ""
             THEN /\ pc' = "aborted"
                  /\ UNCHANGED seed_idx
                  /\ ended' = "raised"
                  /\ UNCHANGED current_url
             ELSE IF next_url.val = <<>>
             THEN /\ pc' = "seed_end"
                  /\ ended' = "no_next"
                  /\ UNCHANGED <<seed_idx, current_url>>
             ELSE /\ pc' = "while"
                  /\ current_url' = next_url.val
                  /\ UNCHANGED <<seed_idx, ended>>
    /\ UNCHANGED <<fnvars, page_count, documents, seed_results, all_results,
                   processed_detail_urls, manifest, fresh, requests, how, listing_fetches,
                   halted>>

\* The rows of the seed are merged before the exception goes on.
paginate_keeping_rows ==
    /\ op = "harvest_all_seeds"
    /\ pc = "docs"
    /\ documents = <<>>
    /\ paginator_calls' = paginator_calls + 1
    /\ \E soup \in Soups :
         LET next_url == _get_next_page_url(soup, current_url[1])
         IN  IF next_url.exc # ""
             THEN /\ pc' = "seeds"
                  /\ seed_idx' = seed_idx + 1
                  /\ ended' = "raised"
                  /\ all_results' = all_results \o seed_results
                  /\ UNCHANGED current_url
             ELSE IF next_url.val = <<>>
             THEN /\ pc' = "seed_end"
                  /\ ended' = "no_next"
                  /\ UNCHANGED <<seed_idx, current_url, all_results>>
             ELSE /\ pc' = "while"
                  /\ current_url' = next_url.val
                  /\ UNCHANGED <<seed_idx, ended, all_results>>
    /\ UNCHANGED <<fnvars, page_count, documents, seed_results,
                   processed_detail_urls, manifest, fresh, requests, how, listing_fetches,
                   halted>>

\* After the for loop: ask the paginator.  An exception it lets out leaves
\* harvest_seed and is caught by harvest_all_seeds, which goes on to the next
\* seed without the rows of this one.
Paginate ==
    /\ op = "harvest_all_seeds"
    /\ pc = "docs"
    /\ documents = <<>>
    /\ paginator_calls' = paginator_calls + 1
    /\ \E soup \in Soups :
         LET next_url == _get_next_page_url(soup, current_url[1])
         IN  IF next_url.exc # ""
             THEN /\ pc' = "seeds"
                  /\ seed_idx' = seed_idx + 1
                  /\ ended' = "raised"
                  /\ UNCHANGED current_url
             ELSE IF next_url.val = <<>>
             THEN /\ pc' = "seed_end"
                  /\ ended' = "no_next"
                  /\ UNCHANGED <<seed_idx, current_url>>
             ELSE /\ pc' = "while"
                  /\ current_url' = next_url.val
                  /\ UNCHANGED <<seed_idx, ended>>
    /\ UNCHANGED <<fnvars, page_count, documents, seed_results, all_results,
                   processed_detail_urls, manifest, fresh, requests, how, listing_fetches,
                   halted>>

\* The rows of the seed are put before the rows of the earlier seeds.
end_seed_inserting_first ==
    /\ pc = "seed_end"
    /\ all_results' = seed_results \o all_results
    /\ seed_idx' = seed_idx + 1
    /\ pc' = "seeds"
    /\ UNCHANGED <<fnvars, current_url, page_count, documents, seed_results,
                   processed_detail_urls, manifest, fresh, requests, how, listing_fetches,
                   paginator_calls, halted, ended>>

\* The manifest is written at the end of every seed.
end_seed_writing_manifest ==
    /\ pc = "seed_end"
    /\ all_results' = all_results \o seed_results
    /\ manifest' = IF all_results \o seed_results = <<>> THEN manifest
                   ELSE [exists |-> TRUE,
                         lines |-> manifest.lines \o
                                   [i \in DOMAIN (all_results \o seed_results) |->
                                       RowLine((all_results \o seed_results)[i])]]
    /\ seed_idx' = seed_idx + 1
    /\ pc' = "seeds"
    /\ UNCHANGED <<fnvars, current_url, page_count, documents, seed_results,
                   processed_detail_urls, fresh, requests, how, listing_fetches,
                   paginator_calls, halted, ended>>

\* return seed_results; self.all_results.extend(seed_results)
EndSeed ==
    /\ pc = "seed_end"
    /\ all_results' = all_results \o seed_results
    /\ seed_idx' = seed_idx + 1
    /\ pc' = "seeds"
    /\ UNCHANGED <<fnvars, current_url, page_count, documents, seed_results,
                   processed_detail_urls, manifest, fresh, requests, how, listing_fetches,
                   paginator_calls, halted, ended>>

RECURSIVE RowLines(_)
RowLines(rows) == IF rows = <<>> THEN <<>> ELSE <<RowLine(Head(rows))>> \o RowLines(Tail(rows))

\* The header is written by every run that writes.
write_manifest_with_header_each_run(file) ==
    IF all_results = <<>> THEN file
    ELSE [exists |-> TRUE,
          lines |-> (IF fresh THEN <<>> ELSE file.lines)
                    \o <<Header>>
                    \o RowLines(all_results)]

_write_manifest(file) ==
    IF all_results = <<>> THEN file
    ELSE [exists |-> TRUE,
          lines |-> (IF fresh THEN <<>> ELSE file.lines)
                    \o (IF fresh \/ ~file.exists THEN <<Header>> ELSE <<>>)
                    \o RowLines(all_results)]

\* After the last seed: write the manifest.
WriteManifest ==
    /\ op = "harvest_all_seeds"
    /\ pc = "seeds"
    /\ seed_idx > Len(seeds)
    /\ manifest' = _write_manifest(manifest)
    /\ pc' = "done"
    /\ UNCHANGED <<fnvars, seed_idx, current_url, page_count, documents,
                   seed_results, all_results, processed_detail_urls, fresh, requests, how,
                   listing_fetches, paginator_calls, halted, ended>>

Next ==
    \/ BeginSeed
    \/ FetchPage
    \/ WhileExit
    \/ ProcessDocument
    \/ Paginate
    \/ EndSeed
    \/ WriteManifest

Spec == Init /\ [][Next]_vars

----------------------------------------------------------------------------
(* The for loop of harvest_seed on the records of one page *)

\* The first page of the first seed has been fetched and its records
\* extracted; nothing has been processed yet.
InitDocument ==
    /\ target_sector = <<"A", "g">>
    /\ op = "process_document"
    /\ arg = <<>>
    /\ ret = <<>>
    /\ pc = "docs"
    /\ seed_idx = 1
    /\ current_url = <<Seed1>>
    /\ page_count = 1
    /\ documents \in {_extract_document_cards(soup, Seed1, 1) : soup \in HarvestSoups} \ {<<>>}
    /\ seed_results = <<>>
    /\ all_results = <<>>
    /\ processed_detail_urls = {}
    /\ requests = {}
    /\ how = {}
    /\ listing_fetches = 1
    /\ paginator_calls = 0
    /\ halted = FALSE
    /\ ended = ""
    /\ fresh = FALSE
    /\ manifest = [exists |-> TRUE, lines |-> <<Header, OldLine>>]

\* One turn of the for loop.  arg keeps the record, the dedup set the call
\* found and what the site answered to the requests the call made (<<>>
\* where it made none); ret keeps the effects of the call.
\* time.sleep(self.rate_limit) is the last statement of the try block: it
\* runs when _process_document has returned (a row or None) and is skipped
\* when it has raised, the except branch having no sleep of its own.
SleptAfter(done) == done.exc = ""

CallProcessDocument ==
    /\ op = "process_document"
    /\ pc = "docs"
    /\ documents # <<>>
    /\ \E sector_page \in SectorPagesFor(Head(documents)) :
       \E pdf_page \in PdfPagesFor(PdfPages, Head(documents), sector_page) :
       \E head \in HeadsFor(pdf_page) :
          LET done == _process_document(Head(documents), sector_page, pdf_page, head)
          IN  /\ ProcessDocumentOn(sector_page, pdf_page, head)
              /\ arg' = [doc |-> Head(documents), seen |-> processed_detail_urls,
                         sector_page |-> IF "sector" \in done.reqs THEN <<sector_page>> ELSE <<>>,
                         pdf_page |-> IF "pdf" \in done.reqs THEN <<pdf_page>> ELSE <<>>,
                         head |-> head]
              /\ ret' = <<[slept |-> SleptAfter(done)] @@ done>>
    /\ UNCHANGED <<target_sector, op>>

NextDocument == CallProcessDocument

SpecDocument == InitDocument /\ [][NextDocument]_vars

----------------------------------------------------------------------------
(* Properties of the crawl *)

\* C1: in one run of harvest_all_seeds no two rows of all_results share a
\* detail_url, whatever the seeds and pages show, error rows included.
C1_NoSharedDetailUrl ==
    \A i, j \in DOMAIN all_results :
        i # j => all_results[i].detail_url # all_results[j].detail_url

\* The first seed gave a row for each of the two documents, one of them an
\* error row; the first page of the second seed showed them again and
\* every one of its records has been skipped.
C1_Witness ==
    /\ seed_idx = 2
    /\ pc = "docs"
    /\ page_count = 1
    /\ documents = <<>>
    /\ seed_results = <<>>
    /\ Len(all_results) = 2
    /\ \E i \in DOMAIN all_results : all_results[i].status = "error"
    /\ {all_results[i].detail_url : i \in DOMAIN all_results} = processed_detail_urls

\* C9: once a fetched listing page has given zero records, the seed is
\* over: the step that finds the page empty does not call the paginator and
\* leaves the loop, and until the next seed begins no listing page is
\* fetched and the paginator is not called.
C9_EmptyPageEndsSeed ==
    [][ /\ (~halted /\ halted') =>
              (pc' = "seed_end" /\ paginator_calls' = paginator_calls)
        /\ (halted /\ halted') =>
              (listing_fetches' = listing_fetches /\ paginator_calls' = paginator_calls)
        /\ (halted /\ ~halted') => (pc = "seeds" /\ seed_idx' > 1) ]_vars

\* The second seed, whose URL has page=1, stopped on an empty page below
\* the ceiling without a call of the paginator.
C9_Witness ==
    /\ halted
    /\ pc = "seeds"
    /\ seed_idx = 3
    /\ HasKey(parse_qs(current_url[1].query), "page")
    /\ page_count < max_pages
    /\ paginator_calls = 0

\* C10: the page counter is zero when a seed begins; it counts the listing
\* pages fetched for that seed alone and never exceeds max_pages, and every
\* row's page_num is in 1..max_pages.
C10_PageCounter ==
    /\ [][(pc = "seeds" /\ pc' = "while") => page_count' = 0]_vars
    /\ [](/\ page_count = listing_fetches
          /\ page_count \in 0..max_pages
          /\ \A i \in DOMAIN all_results : all_results[i].page_num \in 1..max_pages
          /\ \A i \in DOMAIN seed_results : seed_results[i].page_num \in 1..max_pages)

\* The first seed went up to the ceiling and has a row from its last page;
\* the second seed begins at zero.
C10_Witness ==
    /\ seed_idx = 2
    /\ pc = "while"
    /\ page_count = 0
    /\ \E i \in DOMAIN all_results : all_results[i].page_num = max_pages

----------------------------------------------------------------------------
(* Properties of the category rules *)

NonMatching(sector) == Truthy(sector) /\ ~EqualTrimmedFolded(sector, target_sector)

Rows == all_results \o seed_results

RequestedFor(url) == {r.kind : r \in {q \in requests : q.url = url}}

RowsFor(url) == {i \in DOMAIN Rows : Rows[i].detail_url = url}

\* C4 as amended: a record met with a detail URL not processed before and a
\* non-empty listing text that does not match gets no row, and no request
\* is issued for its detail URL, then or later in the run.
C4_RejectedFromCard ==
    \A h \in how :
        NonMatching(h.card_sector) => (RequestedFor(h.url) = {} /\ RowsFor(h.url) = {})

\* The crawl is over, a record was rejected on its listing text and other
\* records gave rows.
C4_Witness ==
    /\ pc = "done"
    /\ all_results # <<>>
    /\ \E h \in how : NonMatching(h.card_sector) /\ h.url \in processed_detail_urls

\* C4 as stated: for every record whose listing text is non-empty and does
\* not match, no request is ever issued for its detail URL and the record
\* gives no row.  The records of the page in hand are such records.
C4_NoRequestEver ==
    /\ \A h \in how :
          NonMatching(h.card_sector) => (RequestedFor(h.url) = {} /\ RowsFor(h.url) = {})
    /\ \A i \in DOMAIN documents :
          NonMatching(documents[i].sector) => RequestedFor(documents[i].detail_url) = {}

\* A call of _process_document has been made for arg.doc
Called == op = "process_document" /\ arg # <<>>

NotYetProcessed == arg.doc.detail_url \notin arg.seen

Notes(row) == {row.notes[i] : i \in DOMAIN row.notes}

\* C3: a not-yet-processed record whose listing text is non-empty and
\* matches is accepted with no category fetch of its detail page: the link
\* resolver is asked next, and the row _process_document returns has the
\* listing text as its sector and "sector from card" among its notes.
C3_AcceptedFromCard ==
    (Called /\ NotYetProcessed /\ Truthy(arg.doc.sector)
            /\ EqualTrimmedFolded(arg.doc.sector, target_sector)) =>
        /\ RequestedFor(arg.doc.detail_url) = {"pdf"}
        /\ Cardinality(RowsFor(arg.doc.detail_url)) = 1
        /\ \A i \in RowsFor(arg.doc.detail_url) :
              \/ /\ Rows[i].status \in {"linked", "no_pdf"}
                 /\ Rows[i].sector = arg.doc.sector
                 /\ "sector from card" \in Notes(Rows[i])
              \/ /\ Rows[i].status = "error"
                 /\ _resolve_pdf_url(arg.pdf_page[1], arg.head).exc # ""

\* The listing text "ag" matched the target "Ag" and the row carries "ag".
C3_Witness ==
    /\ Called /\ NotYetProcessed
    /\ arg.doc.sector = <<"a", "g">>
    /\ \E i \in RowsFor(arg.doc.detail_url) :
          /\ Rows[i].status = "linked"
          /\ Rows[i].sector = <<"a", "g">>
          /\ "sector from card" \in Notes(Rows[i])
    /\ RequestedFor(arg.doc.detail_url) = {"pdf"}

\* the first non-empty category text of the detail page matches the target
FirstTextMatches(page) ==
    /\ page.kind = "page"
    /\ \E i \in DOMAIN page.sectors :
          /\ page.sectors[i] # <<>>
          /\ \A j \in 1..(i - 1) : page.sectors[j] = <<>>
          /\ EqualTrimmedFolded(page.sectors[i], target_sector)

NoTextFound(page) ==
    page.kind = "page" /\ \A i \in DOMAIN page.sectors : page.sectors[i] = <<>>

Accepted(url) ==
    \/ "pdf" \in RequestedFor(url)
    \/ \E i \in RowsFor(url) : Rows[i].status \in {"linked", "no_pdf"}

\* what C5 says of the record of the call: its detail page was fetched for
\* the category check, and the answer decided as said
CategoryCheckedOnDetailPage ==
    /\ arg.sector_page # <<>>
    /\ "sector" \in RequestedFor(arg.doc.detail_url)
    /\ Accepted(arg.doc.detail_url) => FirstTextMatches(arg.sector_page[1])
    /\ (arg.sector_page[1].kind = "fail" \/ NoTextFound(arg.sector_page[1])) =>
          (RowsFor(arg.doc.detail_url) = {} /\ ~Accepted(arg.doc.detail_url))

\* C5 as amended: for a not-yet-processed record with an empty listing
\* text the detail page is fetched for the category check; the record is
\* accepted only if the first non-empty category text there matches, and a
\* failed fetch or a page without category text gives no row at all.
C5_CheckedOnDetailPage ==
    (Called /\ NotYetProcessed /\ arg.doc.sector = <<>>) => CategoryCheckedOnDetailPage

\* The detail page's first selector gave no text, the next gave "Ag": the
\* record is accepted with the detail text.
C5_Witness ==
    /\ Called /\ NotYetProcessed
    /\ arg.doc.sector = <<>>
    /\ arg.sector_page # <<>>
    /\ arg.sector_page[1].sectors = << <<>>, <<"A", "g">> >>
    /\ "sector" \in RequestedFor(arg.doc.detail_url)
    /\ \E i \in RowsFor(arg.doc.detail_url) :
          /\ Rows[i].status = "no_pdf"
          /\ Rows[i].sector = <<"A", "g">>
          /\ "sector from detail page" \in Notes(Rows[i])

\* C5 as stated: for every kept record with an empty listing text the
\* detail page is fetched for the category check, and so on.
C5_EveryKeptRecordChecked ==
    (Called /\ arg.doc.sector = <<>>) => CategoryCheckedOnDetailPage

----------------------------------------------------------------------------
(* Properties of the rows *)

\* C11: every row has one of the three statuses; a row of an accepted
\* record is linked exactly when its pdf_url is not empty and no_pdf
\* exactly when it is empty, a failed fetch of the detail page by the link
\* resolver included.
C11_StatusFollowsPdfUrl ==
    \A i \in DOMAIN Rows :
        /\ Rows[i].status \in {"linked", "no_pdf", "error"}
        /\ Rows[i].status # "error" =>
              /\ Rows[i].status = "linked" <=> Rows[i].pdf_url # <<>>
              /\ Rows[i].status = "no_pdf" <=> Rows[i].pdf_url = <<>>

\* The run has a linked row with a URL and a no_pdf row whose only note
\* besides the sector note is the failed fetch.
C11_Witness ==
    /\ pc = "done"
    /\ \E i \in DOMAIN all_results :
          all_results[i].status = "linked" /\ all_results[i].pdf_url # <<>>
    /\ \E i \in DOMAIN all_results :
          /\ all_results[i].status = "no_pdf"
          /\ all_results[i].pdf_url = <<>>
          /\ "failed to fetch detail page" \in Notes(all_results[i])

\* the "redirects=<n>" fragments among the notes of a row
RedirectNotes(row) == {n \in Notes(row) : Len(n) >= 10 /\ SubSeq(n, 1, 10) = "redirects="}

\* C12: for the row of a record whose link resolver chose a candidate, the
\* notes have the fragment "redirects=<n>" exactly when the HEAD request
\* succeeded after n > 0 hops, and then pdf_url is the final URL; with zero
\* hops no note begins with "redirects=".
C12_RedirectNote ==
    (Called /\ ret[1].exc = "" /\ ret[1].result # <<>>) =>
        LET row == ret[1].result[1]
            hops == IF arg.head.ok THEN arg.head.hops ELSE 0
        IN  /\ row.pdf_url = <<>> => RedirectNotes(row) = {}
            /\ row.pdf_url # <<>> =>
                  /\ hops > 0 => ( /\ RedirectNotes(row) = {"redirects=" \o Str(hops)}
                                   /\ row.pdf_url = <<arg.head.final>> )
                  /\ hops = 0 => RedirectNotes(row) = {}
                  /\ arg.head.ok => row.pdf_url = <<arg.head.final>>
            /\ seed_results # <<>> /\ seed_results[Len(seed_results)] = row

\* One hop led from the candidate on www.afdb.org to the final URL.
C12_Witness ==
    /\ Called /\ ret[1].exc = "" /\ ret[1].result # <<>>
    /\ arg.head.ok /\ arg.head.hops = 1
    /\ seed_results[Len(seed_results)].pdf_url = <<FinalPdf>>
    /\ "redirects=1" \in Notes(seed_results[Len(seed_results)])

\* C13: when the processing of a record raises, the turn of the loop
\* appends exactly one row, an error row for that record with the failure
\* described in its notes and no pdf_url; no other row of the page is for
\* that record, and the loop goes on with the records that remain.
C13_OneErrorRow ==
    [][ (op = "process_document" /\ documents' # documents /\ ret'[1].exc # "") =>
          /\ \E row \in [source_seed : {seeds[seed_idx]}, page_num : {page_count},
                         title : {Head(documents).title}, date : {Head(documents).date},
                         country : {Head(documents).country}, sector : {<<>>},
                         detail_url : {Head(documents).detail_url}, pdf_url : {<<>>},
                         status : {"error"},
                         notes : {<<"processing error: " \o ret'[1].exc>>}] :
                /\ seed_results' = Append(seed_results, row)
                /\ \A i \in DOMAIN seed_results : seed_results[i].detail_url # row.detail_url
          /\ documents' = Tail(documents)
          /\ pc' = "docs" ]_vars

\* The first record of the page raised and has its error row; the second
\* record was processed after it and has a row of its own.
C13_Witness ==
    /\ Called
    /\ Len(seed_results) = 2
    /\ seed_results[1].status = "error"
    /\ seed_results[1].notes = <<"processing error: ValueError">>
    /\ seed_results[2].status = "linked"
    /\ seed_results[2].detail_url # seed_results[1].detail_url
    /\ documents = <<>>

----------------------------------------------------------------------------
(* Properties of the run over the seeds *)

\* The crawl with the steps of the program taken as long as one is possible.
FairSpec == Spec /\ WF_vars(Next)

IsPrefix(a, b) == Len(a) <= Len(b) /\ SubSeq(b, 1, Len(a)) = a

\* C14: an exception that leaves harvest_seed does not abort the run: the
\* loop goes to the next seed with the rows of the other seeds untouched, a
\* seed that returns adds all its rows, every seed of the list is begun in
\* turn, and the manifest write follows with all rows of all_results.
C14_SeedFailureIsNotFatal ==
    /\ [][ /\ seed_idx' # seed_idx =>
                /\ seed_idx' = seed_idx + 1
                /\ pc' = "seeds"
                /\ \/ ended' = "raised" /\ all_results' = all_results
                   \/ ended' # "raised" /\ all_results' = all_results \o seed_results
           /\ all_results' # all_results => seed_idx' # seed_idx
           /\ (pc = "seeds" /\ seed_idx <= Len(seeds)) =>
                (pc' = "while" /\ current_url' = <<seeds[seed_idx]>>) ]_vars
    /\ [](pc = "done" =>
            /\ seed_idx = Len(seeds) + 1
            /\ all_results # <<>> =>
                  \E old \in {SubSeq(manifest.lines, 1, n) : n \in 0..Len(manifest.lines)} :
                      manifest.lines = old \o RowLines(all_results))
    /\ (ended = "raised" ~> pc = "done")

\* The first seed accepted a record and then raised, so no row of it is
\* left; the second seed was harvested and its rows are in the manifest.
C14_Witness ==
    /\ pc = "done"
    /\ \E h \in how :
          /\ h.decision = "card"
          /\ \A i \in DOMAIN all_results : all_results[i].detail_url # h.url
    /\ \E i \in DOMAIN all_results : all_results[i].source_seed = Seed2
    /\ manifest.lines = <<Header, OldLine>> \o RowLines(all_results)

\* C15: the listing fetch that fails leaves the rows of the seed as they
\* are and ends the loop; until the next seed begins no listing page is
\* fetched and the paginator is not called, the return of harvest_seed adds
\* all rows of the seed to all_results, and there they stay.
C15_FailedFetchKeepsRows ==
    /\ [][ /\ (ended # "fetch_failed" /\ ended' = "fetch_failed") =>
                (seed_results' = seed_results /\ pc' = "seed_end" /\ all_results' = all_results)
           /\ (ended = "fetch_failed" /\ ended' = "fetch_failed") =>
                /\ listing_fetches' = listing_fetches
                /\ paginator_calls' = paginator_calls
                /\ seed_results' = seed_results
                /\ pc = "seed_end" => all_results' = all_results \o seed_results
           /\ (ended = "fetch_failed" /\ ended' # "fetch_failed") => pc = "seeds" ]_vars
    /\ []((ended = "fetch_failed" /\ pc \in {"seeds", "done"}) =>
             /\ Len(seed_results) <= Len(all_results)
             /\ SubSeq(all_results, Len(all_results) - Len(seed_results) + 1, Len(all_results))
                   = seed_results)

\* The fetch of the second page failed; the row of the first page is the
\* last row of all_results.
C15_Witness ==
    /\ ended = "fetch_failed"
    /\ pc = "seeds"
    /\ page_count = 2
    /\ seed_results # <<>>
    /\ seed_results[Len(seed_results)].page_num = 1
    /\ all_results # <<>>
    /\ all_results[Len(all_results)] = seed_results[Len(seed_results)]

\* position of a seed URL in the seed list (the seeds are distinct)
SeedPos(url) == CHOOSE k \in DOMAIN seeds : seeds[k] = url

\* row a is not after row b in seed order, then page order
NotAfter(a, b) ==
    \/ SeedPos(a.source_seed) < SeedPos(b.source_seed)
    \/ a.source_seed = b.source_seed /\ a.page_num <= b.page_num

\* C16: the seeds are taken one at a time in list order, each left before
\* the next begins; the rows a seed has so far are all its own; a row is
\* appended at the end, for the record the for loop is at, which are taken
\* in extraction order; and all_results is ordered by seed position, then
\* by page number.
C16_RowOrder ==
    /\ [][ /\ seed_idx' # seed_idx =>
                (seed_idx' = seed_idx + 1 /\ pc # "seeds" /\ pc' = "seeds")
           /\ (pc = "docs" /\ seed_results' # seed_results) =>
                /\ documents' = Tail(documents)
                /\ \E i \in DOMAIN seed_results' :
                      /\ i = Len(seed_results) + 1
                      /\ seed_results' = Append(seed_results, seed_results'[i])
                      /\ seed_results'[i].detail_url = documents[1].detail_url
                      /\ seed_results'[i].page_num = page_count
           /\ (pc = "while" /\ pc' = "docs") => page_count' = page_count + 1 ]_vars
    /\ [](/\ pc \in {"while", "docs", "seed_end"} =>
                /\ \A i \in DOMAIN seed_results :
                      seed_results[i].source_seed = seeds[seed_idx]
                /\ \A i, j \in DOMAIN Rows : i < j => NotAfter(Rows[i], Rows[j])
          /\ \A i, j \in DOMAIN all_results :
                i < j => NotAfter(all_results[i], all_results[j]))

\* all_results has a row of the first page of the first seed and then a
\* row of the second page of the second seed.
C16_Witness ==
    /\ pc = "done"
    /\ Len(all_results) = 2
    /\ all_results[1].source_seed = Seed1 /\ all_results[1].page_num = 1
    /\ all_results[2].source_seed = Seed2 /\ all_results[2].page_num = 2

----------------------------------------------------------------------------
(* Consecutive runs against one output directory *)

MaxRuns == 2

MaxRunRows == 2

\* a row of a run, told from the others by its title
RunRow(title) ==
    [source_seed |-> Seed1, page_num |-> 1, title |-> title, date |-> <<>>,
     country |-> <<>>, sector |-> target_sector, detail_url |-> Seed1,
     pdf_url |-> <<>>, status |-> "no_pdf", notes |-> <<"sector from card">>]

\* what the crawl of one run can leave in all_results
RunResults == SeqsUpTo({RunRow(<<"T">>), RunRow(<<"U">>)}, MaxRunRows)

\* The output directory has no manifest, or the manifest an earlier run
\* left there.  The harvester of the first run is constructed, in either
\* mode.  arg lists the runs that have written, each with the file it found.
InitManifest ==
    /\ target_sector = <<"A", "g">>
    /\ op = "write_manifest"
    /\ arg = <<>>
    /\ ret = <<>>
    /\ Constructed
    /\ fresh \in BOOLEAN
    /\ manifest \in { [exists |-> FALSE, lines |-> <<>>],
                      [exists |-> TRUE, lines |-> <<Header, OldLine>>] }

\* the seeds of the run are harvested: all_results holds the rows found
HarvestRun ==
    /\ op = "write_manifest"
    /\ pc = "seeds"
    /\ seed_idx <= Len(seeds)
    /\ all_results' \in RunResults
    /\ seed_idx' = Len(seeds) + 1
    /\ UNCHANGED <<fnvars, pc, current_url, page_count, documents, seed_results,
                   processed_detail_urls, manifest, fresh, requests, how,
                   listing_fetches, paginator_calls, halted, ended>>

\* self._write_manifest() at the end of harvest_all_seeds
CallWriteManifest ==
    /\ op = "write_manifest"
    /\ pc = "seeds"
    /\ seed_idx > Len(seeds)
    /\ manifest' = _write_manifest(manifest)
    /\ arg' = Append(arg, [fresh |-> fresh, rows |-> all_results, before |-> manifest])
    /\ pc' = "done"
    /\ UNCHANGED <<target_sector, op, ret, seed_idx, current_url, page_count, documents,
                   seed_results, all_results, processed_detail_urls, fresh, requests, how,
                   listing_fetches, paginator_calls, halted, ended>>

\* The next invocation of the program on the same directory: a new
\* harvester, in either mode.
NextRun ==
    /\ op = "write_manifest"
    /\ pc = "done"
    /\ Len(arg) < MaxRuns
    /\ fresh' \in BOOLEAN
    /\ all_results' = <<>>
    /\ seed_idx' = 1
    /\ pc' = "seeds"
    /\ UNCHANGED <<fnvars, current_url, page_count, documents, seed_results,
                   processed_detail_urls, manifest, requests, how,
                   listing_fetches, paginator_calls, halted, ended>>

NextManifest == HarvestRun \/ CallWriteManifest \/ NextRun

SpecManifest == InitManifest /\ [][NextManifest]_vars

RECURSIVE WrittenBy(_)
\* the row lines of the runs, in the order of the runs
WrittenBy(runs) ==
    IF runs = <<>> THEN <<>>
    ELSE RowLines(Head(runs).rows) \o WrittenBy(Tail(runs))

HeaderLines(lines) == {i \in DOMAIN lines : lines[i] = Header}

AllAppend == \A i \in DOMAIN arg : ~arg[i].fresh

\* C17: in append mode, after any number of consecutive runs on the same
\* output directory, the manifest is what the first run found (or one header,
\* written by the run that created the file) followed by the rows of the
\* runs in the order of the runs: it has exactly one header line.
C17_AppendKeepsOneHeader ==
    (arg # <<>> /\ AllAppend) =>
        LET found == arg[1].before
            written == WrittenBy(arg)
        IN  /\ found.exists => manifest = [exists |-> TRUE, lines |-> found.lines \o written]
            /\ (~found.exists /\ written # <<>>) =>
                   manifest = [exists |-> TRUE, lines |-> <<Header>> \o written]
            /\ (~found.exists /\ written = <<>>) => ~manifest.exists
            /\ manifest.exists => Cardinality(HeaderLines(manifest.lines)) = 1

\* two append runs with one row each on a directory without manifest
C17_Witness ==
    /\ pc = "done"
    /\ Len(arg) = 2
    /\ AllAppend
    /\ ~arg[1].before.exists
    /\ Len(arg[1].rows) = 1
    /\ Len(arg[2].rows) = 1
    /\ manifest.lines = <<Header, RowLine(arg[1].rows[1]), RowLine(arg[2].rows[1])>>

\* C18: in fresh mode, after a completed run the manifest is exactly a
\* header followed by the rows of that run, also when the run has no rows.
C18_FreshManifestIsThisRun ==
    (pc = "done" /\ arg # <<>> /\ arg[Len(arg)].fresh) =>
        manifest = [exists |-> TRUE, lines |-> <<Header>> \o RowLines(arg[Len(arg)].rows)]

----------------------------------------------------------------------------
(* main: the command line, the seeds and the exit status *)

MaxSeeds == 2

Http == <<"h", "t", "t", "p">>

\* seed.startswith('http')
StartsWith(s, prefix) ==
    /\ Len(s) >= Len(prefix)
    /\ SubSeq(s, 1, Len(prefix)) = prefix

RECURSIVE Split(_)
\* args.seeds.split(',')
Split(s) ==
    IF \E i \in DOMAIN s : s[i] = ","
    THEN LET i == CHOOSE k \in DOMAIN s : s[k] = "," /\ \A j \in 1..(k - 1) : s[j] # ","
         IN  <<SubSeq(s, 1, i - 1)>> \o Split(SubSeq(s, i + 1, Len(s)))
    ELSE <<s>>

RECURSIVE StripNonEmpty(_)
\* [url.strip() for url in ... if url.strip()]
StripNonEmpty(items) ==
    IF items = <<>> THEN <<>>
    ELSE (IF Strip(Head(items)) # <<>> THEN <<Strip(Head(items))>> ELSE <<>>)
         \o StripNonEmpty(Tail(items))

\* the default seeds of --auto-seeds
AutoSeeds ==
    << <<"h", "t", "t", "p", "s", ":", "/", "/", "w", "w", "w", ".", "a", "f", "d", "b", ".", "o", "r", "g", "/", "e", "n", "/", "d", "o", "c", "u", "m", "e", "n", "t", "s">>,
       <<"h", "t", "t", "p", "s", ":", "/", "/", "w", "w", "w", ".", "a", "f", "d", "b", ".", "o", "r", "g", "/", "e", "n", "/", "d", "o", "c", "u", "m", "e", "n", "t", "s", "/", "c", "a", "t", "e", "g", "o", "r", "y", "/", "p", "r", "o", "j", "e", "c", "t", "s", "-", "o", "p", "e", "r", "a", "t", "i", "o", "n", "s">> >>

\* if args.seeds / elif args.url / elif args.auto_seeds / else: an option
\* that is absent or the empty string is not taken
DetermineSeeds(args) ==
    IF args.seeds # <<>> /\ args.seeds[1] # <<>>
    THEN [ok |-> TRUE, seeds |-> StripNonEmpty(Split(args.seeds[1]))]
    ELSE IF args.url # <<>> /\ args.url[1] # <<>>
    THEN [ok |-> TRUE, seeds |-> <<args.url[1]>>]
    ELSE IF args.auto_seeds
    THEN [ok |-> TRUE, seeds |-> AutoSeeds]
    ELSE [ok |-> FALSE, seeds |-> <<>>]

\* No seed is looked at.
valid_seed_unchecked(seed) == TRUE

\* the test of the validation loop
ValidSeed(seed) == StartsWith(seed, Http)

RECURSIVE Join(_)
Join(items) ==
    IF items = <<>> THEN <<>>
    ELSE IF Len(items) = 1 THEN items[1]
    ELSE items[1] \o <<",">> \o Join(Tail(items))

\* the items a --seeds value is made of
SeedItems ==
    { before \o body \o after :
        before \in {<<>>, <<" ">>},
        body \in {<<>>, Http, <<"h", "t", "t">>, <<"p">> \o Http},
        after \in {<<>>, <<" ">>} }

SeedsValues == { Join(items) : items \in SeqsUpTo(SeedItems, MaxSeeds) }

UrlValues == { <<>>, Http, <<" ">> \o Http, <<"h", "t", "t">> }

\* args after parse_args: --seeds and --url are absent (<<>>) or carry a
\* text, --auto-seeds is a flag.  No harvester exists yet.
InitMain ==
    /\ target_sector = <<"A", "g">>
    /\ op = "main"
    /\ arg \in [seeds : {<<>>} \cup {<<t>> : t \in SeedsValues},
                url : {<<>>} \cup {<<t>> : t \in UrlValues},
                auto_seeds : BOOLEAN]
    /\ ret = <<>>
    /\ pc = "main"
    /\ seed_idx = 1
    /\ current_url = <<>>
    /\ page_count = 0
    /\ documents = <<>>
    /\ seed_results = <<>>
    /\ all_results = <<>>
    /\ processed_detail_urls = {}
    /\ requests = {}
    /\ how = {}
    /\ listing_fetches = 0
    /\ paginator_calls = 0
    /\ halted = FALSE
    /\ ended = ""
    /\ fresh = FALSE
    /\ manifest = [exists |-> TRUE, lines |-> <<Header, OldLine>>]

\* Determine seeds and validate them: sys.exit(1) when there is no seed
\* source or a seed fails the test, else on to the try block.
Main ==
    /\ op = "main"
    /\ pc = "main"
    /\ LET found == DetermineSeeds(arg)
       IN  IF ~found.ok \/ \E i \in DOMAIN found.seeds : ~ValidSeed(found.seeds[i])
           THEN /\ pc' = "exit"
                /\ ret' = <<1>>
           ELSE /\ pc' = "create"
                /\ UNCHANGED ret
    /\ UNCHANGED <<target_sector, op, arg, seed_idx, current_url, page_count, documents,
                   seed_results, all_results, processed_detail_urls, manifest, fresh,
                   requests, how, listing_fetches, paginator_calls, halted, ended>>

\* harvester = AfDBHarvester(..., fresh=args.fresh)
CreateHarvester ==
    /\ op = "main"
    /\ pc = "create"
    /\ fresh' \in BOOLEAN
    /\ pc' = "seeds"
    /\ UNCHANGED <<fnvars, seed_idx, current_url, page_count, documents,
                   seed_results, all_results, processed_detail_urls, manifest,
                   requests, how, listing_fetches, paginator_calls, halted, ended>>

\* harvester.harvest_all_seeds(), the loop over the seeds: the rows the
\* seeds give, none when there is no seed
MainHarvest ==
    /\ op = "main"
    /\ pc = "seeds"
    /\ seed_idx = 1
    /\ all_results' \in (IF DetermineSeeds(arg).seeds = <<>> THEN {<<>>}
                         ELSE {<<>>, <<RunRow(<<"T">>)>>})
    /\ seed_idx' = Len(DetermineSeeds(arg).seeds) + 2
    /\ UNCHANGED <<fnvars, pc, current_url, page_count, documents, seed_results,
                   processed_detail_urls, manifest, fresh, requests, how,
                   listing_fetches, paginator_calls, halted, ended>>

\* harvester.harvest_all_seeds(), the manifest write at its end
MainWriteManifest ==
    /\ op = "main"
    /\ pc = "seeds"
    /\ seed_idx > 1
    /\ manifest' = _write_manifest(manifest)
    /\ pc' = "done"
    /\ UNCHANGED <<fnvars, seed_idx, current_url, page_count, documents,
                   seed_results, all_results, processed_detail_urls, fresh, requests, how,
                   listing_fetches, paginator_calls, halted, ended>>

\* except KeyboardInterrupt / except Exception of main: the constructor or
\* harvest_all_seeds raised
MainExcept ==
    /\ op = "main"
    /\ pc \in {"create", "seeds"}
    /\ pc' = "exit"
    /\ ret' = <<1>>
    /\ UNCHANGED <<target_sector, op, arg, seed_idx, current_url, page_count, documents,
                   seed_results, all_results, processed_detail_urls, manifest, fresh,
                   requests, how, listing_fetches, paginator_calls, halted, ended>>

\* main returns: the interpreter exits with status 0
MainReturns ==
    /\ op = "main"
    /\ pc = "done"
    /\ pc' = "exit"
    /\ ret' = <<0>>
    /\ UNCHANGED <<target_sector, op, arg, seed_idx, current_url, page_count, documents,
                   seed_results, all_results, processed_detail_urls, manifest, fresh,
                   requests, how, listing_fetches, paginator_calls, halted, ended>>

NextMain ==
    \/ Main
    \/ CreateHarvester
    \/ MainHarvest
    \/ MainWriteManifest
    \/ MainExcept
    \/ MainReturns

SpecMain == InitMain /\ [][NextMain]_vars

\* the seeds the command line supplies to the run
SuppliedSeeds == DetermineSeeds(arg).seeds

NothingSupplied == arg.seeds = <<>> /\ arg.url = <<>> /\ ~arg.auto_seeds

\* C19: main exits with status 1 without creating a harvester or fetching
\* anything when no seed source is given or a supplied seed does not start
\* with http, and exits with status 0 when harvest_all_seeds has returned,
\* whatever the number of rows.
C19_ExitStatus ==
    /\ [][ (pc = "main" /\ (NothingSupplied
                             \/ \E i \in DOMAIN SuppliedSeeds : ~StartsWith(SuppliedSeeds[i], Http))) =>
               /\ pc' = "exit"
               /\ ret' = <<1>>
               /\ UNCHANGED <<all_results, processed_detail_urls, manifest, requests,
                              listing_fetches, page_count>> ]_vars
    /\ [][ pc = "done" => (pc' = "exit" /\ ret' = <<0>>) ]_vars
    /\ [](pc = "exit" => ret \in {<<0>>, <<1>>})

\* --seeds with a good and a bad seed ends with status 1
C19_Witness ==
    /\ pc = "exit"
    /\ ret = <<1>>
    /\ Len(SuppliedSeeds) = 2
    /\ StartsWith(SuppliedSeeds[1], Http)
    /\ ~StartsWith(SuppliedSeeds[2], Http)
    /\ requests = {}
    /\ listing_fetches = 0

----------------------------------------------------------------------------
(* A user interrupt during the crawl *)

KeyboardInterrupt == "KeyboardInterrupt"

\* The handler is a bare except.
caught_by_bare_except(exc) == TRUE

\* except Exception as e: KeyboardInterrupt derives from BaseException
\* only and passes
CaughtByExceptException(exc) == exc # KeyboardInterrupt

\* The interrupt arrives while the crawl is at one of its points: between
\* two seeds, in the fetch of a listing page or the extraction of its
\* cards, in the processing of a record or the sleep after it, in the
\* paginator or the sleep after it, at the return of a seed.  The exception
\* goes to the innermost try block whose handler takes it: the one around a
\* record (line 500), the one around a seed (line 541), then main (line
\* 709), which exits with status 1.
Interrupt ==
    /\ op = "harvest_all_seeds"
    /\ \/ pc = "seeds" /\ seed_idx <= Len(seeds)
       \/ pc = "while" /\ WhileCondition
       \/ pc = "docs"
       \/ pc = "seed_end"
    /\ ended' = "interrupted"
    /\ IF pc = "docs" /\ documents # <<>> /\ CaughtByExceptException(KeyboardInterrupt)
       THEN /\ seed_results' = Append(seed_results, ErrorRow(Head(documents), ""))
            /\ documents' = Tail(documents)
            /\ UNCHANGED <<pc, seed_idx, ret>>
       ELSE IF pc # "seeds" /\ CaughtByExceptException(KeyboardInterrupt)
       THEN /\ pc' = "seeds"
            /\ seed_idx' = seed_idx + 1
            /\ UNCHANGED <<seed_results, documents, ret>>
       ELSE /\ pc' = "exit"
            /\ ret' = <<1>>
            /\ UNCHANGED <<seed_results, documents, seed_idx>>
    /\ UNCHANGED <<target_sector, op, arg, current_url, page_count, all_results,
                   processed_detail_urls, manifest, fresh, requests, how,
                   listing_fetches, paginator_calls, halted>>

NextInterrupt == Next \/ Interrupt

SpecInterrupt == Init /\ [][NextInterrupt]_vars

\* C20: an interrupt delivered during the crawl ends the run at once with
\* exit status 1: no handler of the crawl takes it, no row is added for it,
\* the manifest is the one the run found, and nothing runs afterwards.
C20_InterruptStopsRun ==
    /\ [][ (ended' = "interrupted" /\ ended # "interrupted") =>
               /\ pc' = "exit"
               /\ ret' = <<1>>
               /\ manifest' = manifest
               /\ seed_results' = seed_results
               /\ all_results' = all_results ]_vars
    /\ [][ pc = "exit" => UNCHANGED vars ]_vars
    /\ [](ended = "interrupted" =>
             /\ pc = "exit"
             /\ ret = <<1>>
             /\ manifest = [exists |-> TRUE, lines |-> <<Header, OldLine>>])

\* interrupted in the records of a page, with rows of the seed in memory
C20_Witness ==
    /\ pc = "exit"
    /\ ret = <<1>>
    /\ ended = "interrupted"
    /\ documents # <<>>
    /\ seed_results # <<>>
    /\ manifest = [exists |-> TRUE, lines |-> <<Header, OldLine>>]

----------------------------------------------------------------------------
(* The manifest write of a run *)

IsErrorRow(row) == row.status = "error"

\* C21: a run that is not interrupted writes the manifest exactly once,
\* after the last seed has been attempted: the write is reached whatever
\* failed before, it is the only step that touches the manifest, every seed
\* has been entered when it happens, and nothing runs after it.
C21_ManifestWrittenOnce ==
    /\ [][ manifest' # manifest => (pc = "seeds" /\ seed_idx > Len(seeds) /\ pc' = "done") ]_vars
    /\ [][ (pc' = "done" /\ pc # "done") =>
               (pc = "seeds" /\ seed_idx = Len(seeds) + 1 /\ manifest' = _write_manifest(manifest)) ]_vars
    /\ [][ seed_idx' # seed_idx =>
               (seed_idx' = seed_idx + 1 /\ pc \in {"while", "docs", "seed_end"}) ]_vars
    /\ [][ pc = "done" => UNCHANGED vars ]_vars
    /\ <>(pc = "done")

\* written after a failed record and a seed that raised
C21_Witness ==
    /\ pc = "done"
    /\ ended = "raised"
    /\ \E i \in DOMAIN all_results : IsErrorRow(all_results[i])
    /\ manifest.lines = <<Header, OldLine>> \o RowLines(all_results)

----------------------------------------------------------------------------
(* Rate limiting *)

\* C22: the rate-limit delay is applied after each processed record,
\* whether it gave a row, was rejected or skipped, or ended as an error row.
C22_DelayAfterEachRecord ==
    (op = "process_document" /\ ret # <<>>) => ret[1].slept

----------------------------------------------------------------------------
(* The order of the pagination strategies *)

HasHref(h) == h.form # "none"

NormalizedOrNone(h) == IF NormalizeHref(h).exc = "" THEN NormalizeHref(h).val ELSE <<>>

PageNumberOf(u) == IF _extract_page_number(u).exc = "" THEN _extract_page_number(u).val ELSE 0

\* What each strategy gives when it succeeds, <<>> when it does not: the
\* current URL with its integer page parameter incremented; the first "next"
\* anchor that has an href; the first pagination anchor whose href carries
\* the page number after the current one.
ByQueryIncrement(cur_url) ==
    LET query_params == parse_qs(cur_url.query)
    IN  IF HasKey(query_params, "page") /\ IsIntText(Get(query_params, "page")[1])
        THEN <<Url(TRUE, cur_url.scheme, cur_url.netloc, cur_url.path,
                   IncrementedQuery(query_params))>>
        ELSE <<>>

ByNextLink(soup) ==
    LET with == SelectSeq(soup.next_links, HasHref)
    IN  IF with = <<>> THEN <<>> ELSE NormalizedOrNone(with[1])

BySequentialNumber(soup, cur_url) ==
    LET IsNext(h) == HasHref(h) /\ h.valid /\ PageNumberOf(h) = PageNumberOf(cur_url) + 1
        with == SelectSeq(soup.page_links, IsNext)
    IN  IF with = <<>> THEN <<>> ELSE NormalizedOrNone(with[1])

FirstSuccess(soup, cur_url) ==
    IF ByQueryIncrement(cur_url) # <<>> THEN ByQueryIncrement(cur_url)
    ELSE IF ByNextLink(soup) # <<>> THEN ByNextLink(soup)
    ELSE BySequentialNumber(soup, cur_url)

\* C23: the paginator returns what the first succeeding strategy gives, in
\* the order query increment, next link, sequential number, and returns no
\* URL when none succeeds.
C23_FirstStrategyWins ==
    (op = "get_next_page_url" /\ ret # <<>>) =>
        /\ ret[1].exc = ""
        /\ ret[1].val = FirstSuccess(arg.soup, arg.current_url)

----------------------------------------------------------------------------
(* A failed redirect check *)

\* the candidate the link resolver finds on a detail page
CandidateOf(page) ==
    IF page.pdf_links # <<>> THEN NormalizeHref(page.pdf_links[1])
    ELSE OtherCandidate(page.other_links)

FoundCandidate ==
    /\ Called
    /\ arg.pdf_page # <<>>
    /\ arg.pdf_page[1].kind = "page"
    /\ CandidateOf(arg.pdf_page[1]).exc = ""
    /\ CandidateOf(arg.pdf_page[1]).val # <<>>

\* C24: when the HEAD request for a found candidate fails, the record gets
\* a linked row whose pdf_url is the candidate as found, without any
\* "redirects=" note, and no error row.
C24_FailedHeadKeepsCandidate ==
    (FoundCandidate /\ ~arg.head.ok) =>
        /\ ret[1].exc = ""
        /\ ret[1].result # <<>>
        /\ LET row == ret[1].result[1]
           IN  /\ row.status = "linked"
               /\ row.pdf_url = CandidateOf(arg.pdf_page[1]).val
               /\ RedirectNotes(row) = {}
               /\ seed_results # <<>>
               /\ seed_results[Len(seed_results)] = row

C24_Witness ==
    /\ FoundCandidate
    /\ ~arg.head.ok
    /\ seed_results # <<>>
    /\ seed_results[Len(seed_results)].status = "linked"
    /\ seed_results[Len(seed_results)].pdf_url = <<arg.head.final>>
    /\ arg.head.final # FinalPdf

----------------------------------------------------------------------------
(* The country of a card *)

\* the first non-empty text without a year, "" when there is none
FirstCountryText(texts) ==
    LET fit == SelectSeq(texts, LAMBDA t : t # "" /\ ~HasYear(t))
    IN  IF fit = <<>> THEN "" ELSE fit[1]

\* C25: the country of every extracted record is the first non-empty
\* location text of its card that has no 4-digit year, and so is either
\* empty or a text without a year.
C25_CountryIsNoDate ==
    (op = "extract_document_cards" /\ ret # <<>>) =>
        LET docs == ret[1]
            cards == CardsOf(arg.soup)
        IN  \A i \in DOMAIN docs :
               /\ docs[i].country = "" \/ ~HasYear(docs[i].country)
               /\ \E j \in DOMAIN cards : docs[i].country = FirstCountryText(cards[j].countries)

----------------------------------------------------------------------------
(* MapAfricaExtractor.process_csv *)

MaxCsvRows == 3

\* the identifier cells of the input file, as written
CsvRows == SeqsUpTo({<<>>, <<" ">>, <<"P">>, <<"Q">>}, MaxCsvRows)

\* max_rows: None is <<>>, an int n is <<n>>; 0 is falsy like None
IsSet(max_rows) == max_rows # <<>> /\ max_rows[1] # 0

\* The for loop over the rows, as the sequence of what it does: "request"
\* for _extract_project_info (one GET of the project page), "sleep" for
\* time.sleep(self.rate_limit).
RECURSIVE process_rows(_, _, _, _)
process_rows(rows, max_rows, row_count, done) ==
    IF rows = <<>> THEN done
    ELSE IF IsSet(max_rows) /\ row_count >= max_rows[1] THEN done
    ELSE IF Strip(Head(rows)) = <<>> THEN process_rows(Tail(rows), max_rows, row_count, done)
    ELSE process_rows(Tail(rows), max_rows, row_count + 1,
                      done \o <<"request">>
                           \o (IF IsSet(max_rows) /\ row_count + 1 < max_rows[1]
                               THEN <<"sleep">> ELSE <<>>))

process_csv(rows, max_rows) == process_rows(rows, max_rows, 0, <<>>)

InitCsv ==
    /\ target_sector = <<"A", "g">>
    /\ op = "process_csv"
    /\ arg \in [rows : CsvRows, max_rows : {<<>>} \cup {<<n>> : n \in 0..MaxCsvRows}]
    /\ ret = <<>>
    /\ Constructed
    /\ fresh = FALSE
    /\ manifest = [exists |-> FALSE, lines |-> <<>>]

CallProcessCsv ==
    /\ op = "process_csv"
    /\ ret = <<>>
    /\ ret' = <<process_csv(arg.rows, arg.max_rows)>>
    /\ UNCHANGED <<target_sector, op, arg, hvars>>

NextCsv == CallProcessCsv

SpecCsv == InitCsv /\ [][NextCsv]_vars

Requests(done) == {i \in DOMAIN done : done[i] = "request"}

\* C26: process_csv sleeps between every two consecutive project-page
\* requests, with or without max_rows, and with max_rows given it requests
\* at most max_rows pages.
C26_DelayBetweenRequests ==
    (op = "process_csv" /\ ret # <<>>) =>
        /\ \A i \in DOMAIN ret[1] :
              (i > 1 /\ ret[1][i] = "request") => ret[1][i - 1] = "sleep"
        /\ IsSet(arg.max_rows) => Cardinality(Requests(ret[1])) <= arg.max_rows[1]

----------------------------------------------------------------------------
(* Seen once, skipped ever after *)

Rejections == {"reject_card", "reject_detail", "detail_raised"}

\* C27: a call of _process_document puts the detail URL into the dedup set
\* whatever it decides, rejections and failures included, and a call for a
\* URL that is in the set is a skip: no request, no row, no exception,
\* whatever the card says.
C27_SeenMeansSkipped ==
    Called =>
        /\ arg.doc.detail_url \in processed_detail_urls
        /\ \A h \in how : h.url \in processed_detail_urls
        /\ ~NotYetProcessed =>
              /\ ret[1].decision = "duplicate"
              /\ ret[1].exc = ""
              /\ ret[1].result = <<>>
              /\ ret[1].reqs = {}
              /\ arg.sector_page = <<>>
              /\ arg.pdf_page = <<>>

\* the URL was rejected earlier, now a card with a matching sector shows it
\* again and is skipped: the URL has no row
C27_Witness ==
    /\ Called
    /\ ~NotYetProcessed
    /\ _matches_target_sector(arg.doc.sector)
    /\ \E h \in how : h.url = arg.doc.detail_url /\ h.decision \in Rejections
    /\ \A i \in DOMAIN seed_results : seed_results[i].detail_url # arg.doc.detail_url
    /\ ret[1].decision = "duplicate"

----------------------------------------------------------------------------
(* The rows of a seed that raises *)

UrlsOf(rows) == {rows[i].detail_url : i \in DOMAIN rows}

\* the decisions of _process_document that give the record a row
GaveRow(h) == h.decision \in {"card", "detail", "detail_raised"}

\* C28: when harvest_seed raises, all_results stays as it was, so the rows
\* the seed had produced are lost, and the dedup set keeps the URLs of those
\* rows.  The set never shrinks and a row is only ever made for a URL that is
\* not in it, so no later seed gives such a URL a row and the manifest has
\* none for it.
C28_RaisedSeedLosesRows ==
    /\ [][ (ended' = "raised" /\ pc \in {"while", "docs"} /\ pc' = "seeds") =>
               /\ all_results' = all_results
               /\ processed_detail_urls' = processed_detail_urls
               /\ UrlsOf(seed_results) \subseteq processed_detail_urls
               /\ UrlsOf(seed_results) \cap UrlsOf(all_results') = {} ]_vars
    /\ [][ processed_detail_urls \subseteq processed_detail_urls' ]_vars
    /\ [][ seed_results' # seed_results =>
               \/ seed_results' = <<>>
               \/ /\ pc = "docs"
                  /\ seed_results' = Append(seed_results, seed_results'[Len(seed_results')])
                  /\ seed_results'[Len(seed_results')].detail_url \notin processed_detail_urls ]_vars
    /\ [][ all_results' # all_results =>
               (pc = "seed_end" /\ all_results' = all_results \o seed_results) ]_vars
    /\ [](pc = "done" =>
             manifest.lines = <<Header, OldLine>> \o
                              [i \in DOMAIN all_results |-> RowLine(all_results[i])])

\* the run is over: a seed made a row and raised, the URL of the row is in
\* the dedup set, and neither all_results nor the manifest has a row for it
C28_Witness ==
    /\ pc = "done"
    /\ \E h \in how :
          /\ GaveRow(h)
          /\ h.url \in processed_detail_urls
          /\ h.url \notin UrlsOf(all_results)
    /\ all_results # <<>>
    /\ manifest.lines = <<Header, OldLine>> \o RowLines(all_results)

----------------------------------------------------------------------------
(* The sector of a row *)

\* C29: every row with status linked or no_pdf has a sector that equals the
\* target sector up to case and surrounding blanks, and every row with
\* status error has an empty sector and an empty pdf_url; this holds for the
\* rows of all_results and for the rows of the seed in hand.
C29_RowSector ==
    /\ \A i \in DOMAIN all_results :
          LET row == all_results[i]
          IN  /\ row.status \in {"linked", "no_pdf"} =>
                     (row.sector # <<>> /\ EqualTrimmedFolded(row.sector, target_sector))
              /\ row.status = "error" => (row.sector = <<>> /\ row.pdf_url = <<>>)
    /\ \A i \in DOMAIN seed_results :
          LET row == seed_results[i]
          IN  /\ row.status \in {"linked", "no_pdf"} =>
                     (row.sector # <<>> /\ EqualTrimmedFolded(row.sector, target_sector))
              /\ row.status = "error" => (row.sector = <<>> /\ row.pdf_url = <<>>)

\* a finished run with a linked row whose sector is the target in another
\* case, and an error row of a record whose card had the sector
C29_Witness ==
    /\ pc = "done"
    /\ \E i \in DOMAIN all_results :
          /\ all_results[i].status = "linked"
          /\ all_results[i].sector # target_sector
    /\ \E i \in DOMAIN all_results :
          /\ all_results[i].status = "error"
          /\ \E h \in how : h.url = all_results[i].detail_url /\ h.card_sector # <<>>

----------------------------------------------------------------------------
(* Termination *)

\* C30: when every call of the transport returns, harvest_all_seeds comes to
\* its manifest write, and no seed fetches more than max_pages listing pages,
\* whatever the paginator returns.
C30_Terminates ==
    /\ <>(pc = "done")
    /\ [](listing_fetches <= max_pages /\ page_count <= max_pages)
    /\ [](seed_idx <= Len(seeds) + 1)
    /\ [][ (pc = "while" /\ page_count >= max_pages) => pc' \notin {"while", "docs"} ]_vars

\* the run has ended and its last seed, whose URL has a page parameter that
\* the paginator increments every time, was stopped by the ceiling
C30_Witness ==
    /\ pc = "done"
    /\ ended = "ceiling"
    /\ listing_fetches = max_pages
    /\ paginator_calls = max_pages

====
